---- MODULE Spec2Model ----
(***************************************************************************)
(* A model of the `weld` linker: the linker driver (weld-linker), the      *)
(* thread pool it dispatches to (weld-scheduler) and the ELF64 codec       *)
(* (weld-object).                                                          *)
(*                                                                         *)
(*   Spec      the driver: Linker::link, elf64::link, the per-file task    *)
(*   SpecPool  the thread pool on its own, under a client that calls       *)
(*             ThreadPool::new, ThreadPool::execute and drops the pool     *)
(*   SpecEnum  the read/write of the enumerated ELF64 types                *)
(***************************************************************************)
EXTENDS Integers, Sequences, FiniteSets, TLC

(***************************************************************************)
(* Bounds of the model.                                                    *)
(***************************************************************************)
\* Largest value std::thread::available_parallelism() reports.
MaxCores == 5
\* Longest list of input files of a configuration.
MaxFiles == 2
\* Largest desired_pool_size a client of the pool asks for (SpecPool).
MaxDesired == 3
\* Most futures a client of the pool executes (SpecPool).
MaxJobs == 2

(***************************************************************************)
(* Program constants.                                                      *)
(***************************************************************************)
\* elf64::link: ThreadPool::new(NonZeroUsize::new(4).unwrap())
DesiredPoolSize == 4

VARIABLES
    configuration,         \* Configuration: target.binary_format, input_files
    available_parallelism, \* what std::thread::available_parallelism() gives; 0: an io::Error
    desired_pool_size,     \* the argument of ThreadPool::new
    pc,                    \* where the caller of the pool stands (the driver, or the client)
    result,                \* what Linker::link returned; "none" before it returns
    submitted,             \* how many calls of ThreadPool::execute returned Ok
    workers,               \* ThreadPool._workers: the state of each worker's thread
    sender,                \* ThreadPool.sender of the jobs channel: "none", "open", "dropped"
    channel,               \* the jobs channel: the queue of jobs sent and not yet received
    jobs,                  \* every job sent: where it stands
    work_channel,          \* the completion channel of elf64::link: queue, senders, receiver
    output_file,           \* the file at configuration.output_file
    codec                  \* the value under read/write (SpecEnum)

vars ==
    << configuration, available_parallelism, desired_pool_size, pc, result, submitted,
       workers, sender, channel, jobs, work_channel, output_file, codec >>

pool_vars == << available_parallelism, desired_pool_size, workers, sender, channel, jobs >>

link_vars == << configuration, result, work_channel, output_file >>

Min(a, b) == IF a <= b THEN a ELSE b

(***************************************************************************)
(* weld-scheduler: the thread pool.                                        *)
(***************************************************************************)

\* No value yet: Linker::link has not returned, a task has no result.
NoResult == [ kind |-> "none", path |-> 0 ]

\* A job as ThreadPool::execute sends it: a boxed future, not yet polled.  `captures_sender`
\* says whether the future owns a clone of the completion channel's sender.
NewJob(captures_sender) ==
    [ state |-> "queued", worker |-> 0, spawns |-> 0, step |-> "start",
      failed |-> "none", reported |-> NoResult, endianness |-> "none",
      captures_sender |-> captures_sender ]

PoolSizeIgnoresParallelism(desired, available) == desired

\* ThreadPool::new: cmp::min(desired_pool_size, thread::available_parallelism()?).get()
PoolSize(desired, available) == Min(desired, available)

\* The workers that are in their receive loop; each owns a clone of the receiver.
LiveWorkers == { w \in DOMAIN workers : workers[w] = "receiving" }

SendDropsJob(queue, job) == queue

\* self.sender.send(Box::pin(work)) on the unbounded channel
Send(queue, job) == Append(queue, job)

RecvKeepsJob(queue) == queue

\* receiver.recv().await returned Ok(received_future): the head of the queue is taken out
Recv(queue) == Tail(queue)

ClosedWithJobsQueued(queue, tx) == tx = "dropped"

\* receiver.recv().await returns Err only when the channel is closed (its sender dropped)
\* and empty: the messages sent before the close are still received.
RecvClosed(queue, tx) == queue = <<>> /\ tx = "dropped"

\* The futures spawned on worker w's executor that have not finished.
Spawned(w) == { j \in DOMAIN jobs : jobs[j].state = "spawned" /\ jobs[j].worker = w }

\* The jobs channel and worker w's executor after the futures in `dropped` are dropped
\* without finishing; a dropped future drops the sender it captured.
DropFutures(dropped) ==
    /\ jobs' = [ j \in DOMAIN jobs |->
                   IF j \in dropped THEN [jobs[j] EXCEPT !.state = "dropped"] ELSE jobs[j] ]
    /\ work_channel' =
         [ work_channel EXCEPT
             !.senders = @ - Cardinality({ j \in dropped : jobs[j].captures_sender }) ]

\* ThreadPool::new.  `spawned` is the number of threads thread::Builder::spawn creates
\* before it fails (all of them when it does not fail).
ThreadPoolNew ==
    \E spawned \in 0 .. PoolSize(desired_pool_size, available_parallelism) :
        LET pool_size == PoolSize(desired_pool_size, available_parallelism) IN
        /\ sender = "none"
        /\ IF available_parallelism = 0
           THEN \* thread::available_parallelism()? is an error: no channel, no worker
                /\ workers' = << >>
                /\ sender' = "failed"
           ELSE IF spawned < pool_size
           THEN \* Worker::new(nth, ..)? is an error: the workers made so far keep their
                \* threads, the sender is dropped with the function's locals
                /\ workers' = [ w \in 1 .. spawned |-> "receiving" ]
                /\ sender' = "dropped"
           ELSE /\ workers' = [ w \in 1 .. pool_size |-> "receiving" ]
                /\ sender' = "open"
        /\ channel' = << >>
        /\ UNCHANGED << available_parallelism, desired_pool_size, jobs >>

\* ThreadPool::execute: TRUE when it returns Ok.  The send fails only on a closed channel,
\* that is when no receiver is left.
ExecuteAccepts == LiveWorkers # {}

\* Worker::new, the thread's loop: a future is received and spawned, detached.
WorkerReceive(w) ==
    /\ workers[w] = "receiving"
    /\ channel # << >>
    /\ LET j == Head(channel) IN
        jobs' = [ jobs EXCEPT ![j].state = "spawned", ![j].worker = w, ![j].spawns = @ + 1 ]
    /\ channel' = Recv(channel)
    /\ UNCHANGED << available_parallelism, desired_pool_size, workers, sender >>
    /\ UNCHANGED << pc, submitted, codec >>
    /\ UNCHANGED link_vars

\* Worker::new, the thread's loop: recv() is an error; the loop, block_on and the thread's
\* closure end, which drops the thread's executor and the unfinished futures spawned on it.
WorkerStop(w) ==
    /\ workers[w] = "receiving"
    /\ RecvClosed(channel, sender)
    /\ workers' = [ workers EXCEPT ![w] = "stopped" ]
    /\ DropFutures(Spawned(w))
    /\ UNCHANGED << available_parallelism, desired_pool_size, sender, channel >>
    /\ UNCHANGED << pc, submitted, codec, configuration, result, output_file >>

\* The executor of the worker that received the future polls it: the worker's thread is in
\* block_on(executor.run(..)), which runs the spawned futures while the loop is pending.
Running(j) ==
    /\ jobs[j].state = "spawned"
    /\ workers[jobs[j].worker] = "receiving"

(***************************************************************************)
(* A client of the pool (SpecPool): it makes a pool, executes futures that *)
(* run to their end in one poll, and drops the pool.                       *)
(***************************************************************************)

ClientNew ==
    /\ pc = "client_new"
    /\ ThreadPoolNew
    /\ pc' = IF sender' = "open" THEN "client_use" ELSE "client_end"
    /\ UNCHANGED << submitted, codec >>
    /\ UNCHANGED link_vars

ClientExecute ==
    /\ pc = "client_use"
    /\ submitted < MaxJobs
    /\ IF ExecuteAccepts
       THEN /\ channel' = Send(channel, Len(jobs) + 1)
            /\ jobs' = Append(jobs, NewJob(FALSE))
            /\ submitted' = submitted + 1
            /\ UNCHANGED << pc, sender >>
       ELSE \* Err(SendError(..)): the client gives up and drops the pool
            /\ pc' = "client_end"
            /\ sender' = "dropped"
            /\ UNCHANGED << channel, jobs, submitted >>
    /\ UNCHANGED << available_parallelism, desired_pool_size, workers, codec >>
    /\ UNCHANGED link_vars

\* The ThreadPool value is dropped: its sender closes the jobs channel, the workers' join
\* handles are dropped (the threads are detached, not joined).
ClientDrop ==
    /\ pc = "client_use"
    /\ pc' = "client_end"
    /\ sender' = "dropped"
    /\ UNCHANGED << available_parallelism, desired_pool_size, workers, channel, jobs >>
    /\ UNCHANGED << submitted, codec >>
    /\ UNCHANGED link_vars

FutureRuns(j) ==
    /\ Running(j)
    /\ jobs' = [ jobs EXCEPT ![j].state = "finished", ![j].step = "end" ]
    /\ UNCHANGED << available_parallelism, desired_pool_size, workers, sender, channel >>
    /\ UNCHANGED << pc, submitted, codec >>
    /\ UNCHANGED link_vars

NoCodec == [ phase |-> "none" ]

InitPool ==
    /\ configuration = [ binary_format |-> "Elf", input_files |-> << >> ]
    /\ available_parallelism \in 0 .. MaxCores
    /\ desired_pool_size \in 1 .. MaxDesired
    /\ pc = "client_new"
    /\ result = NoResult
    /\ submitted = 0
    /\ workers = << >>
    /\ sender = "none"
    /\ channel = << >>
    /\ jobs = << >>
    /\ work_channel = [ queue |-> << >>, senders |-> 0, receiver |-> FALSE ]
    /\ output_file = [ state |-> "untouched", bytes |-> << >> ]
    /\ codec = NoCodec

WorkerNext(w) == WorkerReceive(w) \/ WorkerStop(w)

NextPool ==
    \/ ClientNew
    \/ ClientExecute
    \/ ClientDrop
    \/ \E w \in DOMAIN workers : WorkerReceive(w)
    \/ \E w \in DOMAIN workers : WorkerStop(w)
    \/ \E j \in DOMAIN jobs : FutureRuns(j)

SpecPool == InitPool /\ [][NextPool]_vars

\* Each worker is an operating-system thread, and each executor polls what it has spawned:
\* a step of a worker or of a future that stays possible is eventually taken.
SpecPoolFair ==
    /\ InitPool
    /\ [][NextPool]_vars
    /\ \A w \in 1 .. MaxDesired : WF_vars(w \in DOMAIN workers /\ WorkerNext(w))
    /\ \A j \in 1 .. MaxJobs : WF_vars(j \in DOMAIN jobs /\ FutureRuns(j))

(***************************************************************************)
(* weld-linker: Linker::link and the ELF64 backend, elf64::link.           *)
(***************************************************************************)

\* target_lexicon::BinaryFormat, as far as the dispatch tells the values apart.
BinaryFormats == { "Elf", "Macho", "Wasm" }

\* Input files are named by their place in the list.
InputLists == { [ i \in 1 .. k |-> i ] : k \in 0 .. MaxFiles }

Ok == [ kind |-> "Ok", path |-> 0 ]

Error(kind, path) == [ kind |-> kind, path |-> path ]

DispatchFormatFirst(config) ==
    IF config.binary_format # "Elf" THEN "UnsupportedBinaryFormat"
    ELSE IF config.input_files = << >> THEN "NoInputFile"
    ELSE "elf64"

\* Linker::link: the check of the input list, then the match on the binary format.
Dispatch(config) ==
    IF config.input_files = << >> THEN "NoInputFile"
    ELSE IF config.binary_format = "Elf" THEN "elf64"
    ELSE "UnsupportedBinaryFormat"

AnyInputCountAccepted(count) == TRUE

\* elf64::link: assert_eq!(configuration.input_files.len(), 1, ..)
InputCountAccepted(count) == count = 1

\* File::MAGIC
MAGIC == << 127, 69, 76, 70 >>

\* File::ELF64
ELF64 == << 2 >>

\* The discriminant of file::Endianness.
EndiannessByte(endianness) == IF endianness = "Little" THEN 1 ELSE 2

\* FileBuilder::build_with_endianness: the first bytes of the buffer (magic, class,
\* endianness); the bytes after them are not kept in this state.
BuildIdent(endianness) == MAGIC \o ELF64 \o << EndiannessByte(endianness) >>

Linker_link ==
    /\ pc = "link"
    /\ LET to == Dispatch(configuration) IN
        IF to = "elf64"
        THEN pc' = "elf64_link" /\ UNCHANGED result
        ELSE pc' = "returned" /\ result' = Error(to, 0)
    /\ UNCHANGED pool_vars
    /\ UNCHANGED << configuration, work_channel, output_file, submitted, codec >>

\* elf64::link: ThreadPool::new(..).map_err(Error::ThreadPool)?, then unbounded()
elf64_link_pool ==
    /\ pc = "elf64_link"
    /\ ThreadPoolNew
    /\ IF sender' = "open"
       THEN /\ pc' = "assert"
            /\ work_channel' = [ queue |-> << >>, senders |-> 1, receiver |-> TRUE ]
            /\ UNCHANGED result
       ELSE /\ pc' = "returned"
            /\ result' = Error("ThreadPool", 0)
            /\ UNCHANGED work_channel
    /\ UNCHANGED << configuration, output_file, submitted, codec >>

\* elf64::link: the assertion on the number of input files.  On a panic the function's
\* locals are dropped: the pool, its sender, the completion channel's sender and receiver.
elf64_link_assert ==
    /\ pc = "assert"
    /\ IF InputCountAccepted(Len(configuration.input_files))
       THEN /\ pc' = "submit"
            /\ UNCHANGED << sender, work_channel >>
       ELSE /\ pc' = "panicked"
            /\ sender' = "dropped"
            /\ work_channel' = [ work_channel EXCEPT !.senders = @ - 1, !.receiver = FALSE ]
    /\ UNCHANGED << available_parallelism, desired_pool_size, workers, channel, jobs >>
    /\ UNCHANGED << configuration, result, output_file, submitted, codec >>

\* elf64::link, the loop over the input files: sender.clone(), thread_pool.execute(..)
elf64_link_execute ==
    /\ pc = "submit"
    /\ submitted < Len(configuration.input_files)
    /\ IF ExecuteAccepts
       THEN /\ channel' = Send(channel, Len(jobs) + 1)
            /\ jobs' = Append(jobs, NewJob(TRUE))
            /\ submitted' = submitted + 1
            /\ work_channel' = [ work_channel EXCEPT !.senders = @ + 1 ]
            /\ UNCHANGED << pc, sender, result >>
       ELSE \* .map_err(|_| Error::ThreadPoolChannelClosed)?
            /\ pc' = "returned"
            /\ result' = Error("ThreadPoolChannelClosed", 0)
            /\ sender' = "dropped"
            /\ work_channel' = [ work_channel EXCEPT !.senders = @ - 1, !.receiver = FALSE ]
            /\ UNCHANGED << channel, jobs, submitted >>
    /\ UNCHANGED << available_parallelism, desired_pool_size, workers >>
    /\ UNCHANGED << configuration, output_file, codec >>

\* elf64::link: drop(sender), after the loop
elf64_link_drop_sender ==
    /\ pc = "submit"
    /\ submitted = Len(configuration.input_files)
    /\ pc' = "recv"
    /\ work_channel' = [ work_channel EXCEPT !.senders = @ - 1 ]
    /\ UNCHANGED pool_vars
    /\ UNCHANGED << configuration, result, output_file, submitted, codec >>

\* elf64::link: while let Ok(received) = receiver.recv().await { let _ = received?; } Ok(())
\* Returning drops the pool (its sender) and the receiver.
elf64_link_recv ==
    /\ pc = "recv"
    /\ IF work_channel.queue # << >>
       THEN LET received == Head(work_channel.queue) IN
            IF received = Ok
            THEN /\ work_channel' = [ work_channel EXCEPT !.queue = Tail(@) ]
                 /\ UNCHANGED << pc, result, sender >>
            ELSE /\ pc' = "returned"
                 /\ result' = received
                 /\ sender' = "dropped"
                 /\ work_channel' = [ work_channel EXCEPT !.queue = Tail(@), !.receiver = FALSE ]
       ELSE /\ work_channel.senders = 0
            /\ pc' = "returned"
            /\ result' = Ok
            /\ sender' = "dropped"
            /\ work_channel' = [ work_channel EXCEPT !.receiver = FALSE ]
    /\ UNCHANGED << available_parallelism, desired_pool_size, workers, channel, jobs >>
    /\ UNCHANGED << configuration, output_file, submitted, codec >>

(***************************************************************************)
(* The per-file task of elf64::link, one action per step.  What a step     *)
(* finds (a missing file, bytes that do not parse, ..) is the              *)
(* environment's choice.                                                   *)
(***************************************************************************)

\* A step of task j panics (an unwrap of an error, unimplemented!, expect).  The task's
\* future is dropped, and with it the completion sender it captured.  Whether the panic is
\* caught where the future is polled or unwinds the worker's thread is the executor
\* crate's affair: both are modelled.  When it unwinds, the thread ends and its executor
\* is dropped with the other futures spawned on it.
TaskPanics(j, step) ==
    \E unwinds \in BOOLEAN :
        LET w == jobs[j].worker
            gone == IF unwinds THEN Spawned(w) ELSE { j } IN
        /\ jobs' = [ i \in DOMAIN jobs |->
                       IF i = j THEN [ jobs[i] EXCEPT !.state = "panicked", !.failed = step ]
                       ELSE IF i \in gone THEN [ jobs[i] EXCEPT !.state = "dropped" ]
                       ELSE jobs[i] ]
        /\ work_channel' =
             [ work_channel EXCEPT
                 !.senders = @ - Cardinality({ i \in gone : jobs[i].captures_sender }) ]
        /\ workers' = IF unwinds THEN [ workers EXCEPT ![w] = "dead" ] ELSE workers

\* The `?` whose map_err names ParsingFile whatever the step that failed.
TaskFailsAsParsingFile(j, step, error) ==
    /\ jobs' = [ jobs EXCEPT ![j].step = "send", ![j].failed = step,
                             ![j].reported = [ kind |-> "ParsingFile", path |-> error.path ] ]
    /\ UNCHANGED << work_channel, workers >>

\* The `work` block of task j ends with Err(error) at `step`: the `?` operator.
TaskFails(j, step, error) ==
    /\ jobs' = [ jobs EXCEPT ![j].step = "send", ![j].failed = step, ![j].reported = error ]
    /\ UNCHANGED << work_channel, workers >>

TaskGoes(j, step) ==
    /\ jobs' = [ jobs EXCEPT ![j].step = step ]
    /\ UNCHANGED << work_channel, workers >>

task_frame == << available_parallelism, desired_pool_size, sender, channel,
                 configuration, result, pc, submitted, codec >>

\* FilePicker::open(&input_file_name).unwrap()
task_open(j) ==
    /\ Running(j)
    /\ jobs[j].step = "start"
    /\ \E opened \in BOOLEAN :
        IF opened THEN TaskGoes(j, "read") ELSE TaskPanics(j, "open")
    /\ UNCHANGED task_frame
    /\ UNCHANGED output_file

\* input_file.read_as_bytes().await.unwrap()
task_read(j) ==
    /\ Running(j)
    /\ jobs[j].step = "read"
    /\ \E read \in BOOLEAN :
        IF read THEN TaskGoes(j, "parse") ELSE TaskPanics(j, "read")
    /\ UNCHANGED task_frame
    /\ UNCHANGED output_file

\* weld_object::elf64::File::read::<()>(bytes).map_err(|_| Error::ParsingFile(..))?
\* File::read returns a file, returns an error, or panics on a slice out of the bytes'
\* range (file[ph_offset.into()..], &file[offset.into()..][..size.into()]).
task_parse(j) ==
    /\ Running(j)
    /\ jobs[j].step = "parse"
    /\ \E parsed \in { "Little", "Big", "Err", "panic" } :
        CASE parsed = "Err" ->
                TaskFails(j, "parse", Error("ParsingFile", configuration.input_files[j]))
          [] parsed = "panic" -> TaskPanics(j, "parse")
          [] OTHER ->
                /\ jobs' = [ jobs EXCEPT ![j].step = "names", ![j].endianness = parsed ]
                /\ UNCHANGED << work_channel, workers >>
    /\ UNCHANGED task_frame
    /\ UNCHANGED output_file

\* object_file.fetch_section_names(); object_file.strings_section()
task_names(j) ==
    /\ Running(j)
    /\ jobs[j].step = "names"
    /\ TaskGoes(j, "symbols")
    /\ UNCHANGED task_frame
    /\ UNCHANGED output_file

\* the symbols of every SymbolTable section, collected:
\* .map(|result| result.map_err(|_| Error::ParsingSymbol(..))).collect::<Result<..>>()?
task_symbols(j) ==
    /\ Running(j)
    /\ jobs[j].step = "symbols"
    /\ \E decoded \in BOOLEAN :
        IF decoded THEN TaskGoes(j, "build")
        ELSE TaskFails(j, "symbols", Error("ParsingSymbol", configuration.input_files[j]))
    /\ UNCHANGED task_frame
    /\ UNCHANGED output_file

\* FileBuilder::new, push_segment for every ProgramData section (unimplemented! on a
\* section flag other than Allocable, Executable, Writable), file.build().unwrap() and
\* the read of the built bytes.
task_build(j) ==
    /\ Running(j)
    /\ jobs[j].step = "build"
    /\ \E flags_supported \in BOOLEAN :
        IF flags_supported THEN TaskGoes(j, "open_output") ELSE TaskPanics(j, "build")
    /\ UNCHANGED task_frame
    /\ UNCHANGED output_file

\* std::fs::File::options().create(true).write(true).truncate(true).open(..).unwrap()
task_open_output(j) ==
    /\ Running(j)
    /\ jobs[j].step = "open_output"
    /\ \E opened \in BOOLEAN :
        IF opened
        THEN /\ TaskGoes(j, "write")
             /\ output_file' = [ state |-> "truncated", bytes |-> << >> ]
        ELSE /\ TaskPanics(j, "open_output")
             /\ UNCHANGED output_file
    /\ UNCHANGED task_frame

\* output_file.write_all(&final_bytes).unwrap(); Ok(())
task_write(j) ==
    /\ Running(j)
    /\ jobs[j].step = "write"
    /\ \E written \in BOOLEAN :
        IF written
        THEN /\ jobs' = [ jobs EXCEPT ![j].step = "send", ![j].reported = Ok ]
             /\ UNCHANGED << work_channel, workers >>
             /\ output_file' =
                  [ state |-> "written", bytes |-> BuildIdent(jobs[j].endianness) ]
        ELSE /\ TaskPanics(j, "write")
             /\ UNCHANGED output_file
    /\ UNCHANGED task_frame

\* sender.send(work.await).await.expect(..); then the task's future ends and drops the
\* sender it captured.  A send to a channel whose receiver is dropped is an error.
task_send(j) ==
    /\ Running(j)
    /\ jobs[j].step = "send"
    /\ IF work_channel.receiver
       THEN /\ jobs' = [ jobs EXCEPT ![j].step = "end", ![j].state = "finished" ]
            /\ work_channel' =
                 [ work_channel EXCEPT !.queue = Append(@, jobs[j].reported),
                                       !.senders = @ - 1 ]
            /\ UNCHANGED workers
       ELSE TaskPanics(j, "send")
    /\ UNCHANGED task_frame
    /\ UNCHANGED output_file

Init ==
    /\ configuration \in [ binary_format : BinaryFormats, input_files : InputLists ]
    /\ available_parallelism \in 0 .. MaxCores
    /\ desired_pool_size = DesiredPoolSize
    /\ pc = "link"
    /\ result = NoResult
    /\ submitted = 0
    /\ workers = << >>
    /\ sender = "none"
    /\ channel = << >>
    /\ jobs = << >>
    /\ work_channel = [ queue |-> << >>, senders |-> 0, receiver |-> FALSE ]
    /\ output_file = [ state |-> "untouched", bytes |-> << >> ]
    /\ codec = NoCodec

Next ==
    \/ Linker_link
    \/ elf64_link_pool
    \/ elf64_link_assert
    \/ elf64_link_execute
    \/ elf64_link_drop_sender
    \/ elf64_link_recv
    \/ \E w \in DOMAIN workers : WorkerReceive(w)
    \/ \E w \in DOMAIN workers : WorkerStop(w)
    \/ \E j \in DOMAIN jobs : task_open(j)
    \/ \E j \in DOMAIN jobs : task_read(j)
    \/ \E j \in DOMAIN jobs : task_parse(j)
    \/ \E j \in DOMAIN jobs : task_names(j)
    \/ \E j \in DOMAIN jobs : task_symbols(j)
    \/ \E j \in DOMAIN jobs : task_build(j)
    \/ \E j \in DOMAIN jobs : task_open_output(j)
    \/ \E j \in DOMAIN jobs : task_write(j)
    \/ \E j \in DOMAIN jobs : task_send(j)

Spec == Init /\ [][Next]_vars

(***************************************************************************)
(* Claims about the driver and the pool.                                   *)
(***************************************************************************)

Returned == pc = "returned"

IsTaskError(r) == r.kind \in { "ParsingFile", "ParsingSymbol", "NotRelocatable" }

\* C1: for an ELF target and a non-empty input list, link returns Ok(()) only after
\* every submitted task has run all its steps and reported Ok(()) on the completion
\* channel, and then the output path holds the builder's bytes, which begin with
\* 7F 45 4C 46 02.
C1_OkOnlyAfterEveryTaskReportedOk ==
    (Returned /\ result = Ok) =>
        /\ \A j \in DOMAIN jobs :
             jobs[j].state = "finished" /\ jobs[j].step = "end" /\ jobs[j].reported = Ok
        /\ output_file.state = "written"
        /\ Len(output_file.bytes) >= 5
        /\ SubSeq(output_file.bytes, 1, 5) = << 127, 69, 76, 70, 2 >>

\* C2: a failure of any step of a task travels as an error value through the task's
\* result and the completion channel, and link returns Err: link never returns Ok(())
\* in an execution where a step of a task failed.
C2_FailedStepReturnsErr ==
    \A j \in DOMAIN jobs :
        jobs[j].failed # "none" =>
            /\ jobs[j].state # "panicked"
            /\ IsTaskError(jobs[j].reported)
            /\ Returned => result # Ok

\* C3: Linker::link returns NoInputFile if and only if the input list is empty, whatever
\* the target triple; the check comes before the choice of a backend and no task is
\* submitted in that case.
C3_NoInputFileIffEmpty ==
    /\ Returned => (result.kind = "NoInputFile" <=> configuration.input_files = << >>)
    /\ configuration.input_files = << >> =>
         /\ pc \in { "link", "returned" }
         /\ sender = "none"
         /\ submitted = 0

C3_Witness ==
    /\ Returned
    /\ result.kind = "NoInputFile"
    /\ configuration.binary_format # "Elf"

\* C4, as claimed: Linker::link returns UnsupportedBinaryFormat if and only if the
\* target's binary format is not ELF, for every input list, empty or not.
C4_UnsupportedIffNotElf ==
    Returned =>
        (result.kind = "UnsupportedBinaryFormat" <=> configuration.binary_format # "Elf")

\* C4, amended: Linker::link returns UnsupportedBinaryFormat if and only if the input
\* list is not empty and the target's binary format is not ELF.
C4_UnsupportedIffNotElfAndInputs ==
    Returned =>
        (result.kind = "UnsupportedBinaryFormat"
            <=> (configuration.binary_format # "Elf" /\ configuration.input_files # << >>))

C4_Witness ==
    /\ Returned
    /\ result.kind = "UnsupportedBinaryFormat"
    /\ Len(configuration.input_files) >= 1

\* The ELF64 backend got its pool and has left the loop that submits the tasks.
PastSubmission ==
    \/ pc \in { "recv", "panicked" }
    \/ Returned /\ (result = Ok \/ IsTaskError(result))

C6_NoTaskAbandoned ==
    /\ \A j \in DOMAIN jobs : jobs[j].state \notin { "panicked", "dropped" }
    /\ (Returned /\ LiveWorkers = {}) => \A j \in DOMAIN jobs : jobs[j].state = "finished"
    /\ (Returned /\ IsTaskError(result)) =>
         \E j \in DOMAIN jobs : jobs[j].state = "finished" /\ jobs[j].reported = result

Queued(j) == Cardinality({ i \in DOMAIN channel : channel[i] = j })

AllStopped == \A w \in DOMAIN workers : workers[w] = "stopped"

RECURSIVE Pow256(_)
Pow256(n) == IF n = 0 THEN 1 ELSE 256 * Pow256(n - 1)

\* Number::write_u8, write_u16, write_u32 of LittleEndian (to_le_bytes) and of BigEndian
\* (to_be_bytes): the `width` bytes of n, n being of that width.
write_uN(endian, width, n) ==
    [ i \in 1 .. width |->
        LET place == IF endian = "LittleEndian" THEN i - 1 ELSE width - i IN
        (n \div Pow256(place)) % 256 ]

RECURSIVE NumberOf(_, _)
\* The number whose bytes, least significant first, are `bytes` from index i on.
NumberOf(bytes, i) ==
    IF i > Len(bytes) THEN 0 ELSE bytes[i] + 256 * NumberOf(bytes, i + 1)

Reverse(bytes) == [ i \in 1 .. Len(bytes) |-> bytes[Len(bytes) + 1 - i] ]

ParseError == [ ok |-> FALSE ]

\* Number::read_u8, read_u16, read_u32 of LittleEndian (le_u8, ..) and of BigEndian
\* (be_u8, ..): the number in the first `width` bytes, and the bytes after them.
read_uN(endian, width, input) ==
    IF Len(input) < width THEN ParseError
    ELSE LET head == SubSeq(input, 1, width) IN
         [ ok |-> TRUE,
           value |-> NumberOf(IF endian = "LittleEndian" THEN head ELSE Reverse(head), 1),
           rest |-> SubSeq(input, width + 1, Len(input)) ]

\* enum Endianness, #[repr(u8)]: the variants and their discriminants.
Endianness ==
    { << "Little", 1 >>, << "Big", 2 >> }

\* enum Version, #[repr(u8)]: the variants and their discriminants.
Version ==
    { << "None", 0 >>, << "Current", 1 >> }

\* enum OsAbi, #[repr(u8)]: the variants and their discriminants.
OsAbi ==
    { << "SystemV", 0 >>, << "HpUx", 1 >>, << "NetBsd", 2 >>, << "Gnu", 3 >>,
      << "GnuHurd", 4 >>, << "Solaris", 6 >>, << "Aix", 7 >>, << "Irix", 8 >>,
      << "FreeBsd", 9 >>, << "Tru64", 10 >>, << "Modesto", 11 >>, << "OpenBsd", 12 >>,
      << "OpenVms", 13 >>, << "Nsk", 14 >>, << "Aros", 15 >>, << "FenixOs", 16 >>,
      << "CloudAbi", 17 >>, << "OpenVos", 18 >>, << "ArmAeabi", 64 >>, << "Arm", 97 >>,
      << "Standalone", 255 >> }

\* enum FileType, #[repr(u16)]: the variants and their discriminants.
FileType ==
    { << "None", 0 >>, << "RelocatableFile", 1 >>, << "ExecutableFile", 2 >>,
      << "SharedObject", 3 >>, << "CoreFile", 4 >> }

\* enum Machine, #[repr(u16)]: the variants and their discriminants.
Machine ==
    { << "None", 0 >>, << "Att32", 1 >>, << "Sparc", 2 >>, << "X86", 3 >>,
      << "Motorola68k", 4 >>, << "Motorola88k", 5 >>, << "IntelMcu", 6 >>,
      << "Intel860", 7 >>, << "Mips", 8 >>, << "IbmS370", 9 >>, << "MipsRs3Le", 10 >>,
      << "HpPaRisc", 14 >>, << "FujitsuVpp500", 17 >>, << "Sparc32Plus", 18 >>,
      << "Intel960", 19 >>, << "PowerPc", 20 >>, << "PowerPc64", 21 >>, << "IbmS390", 22 >>,
      << "IbmSpu", 23 >>, << "NecV800", 36 >>, << "FujitsuFr20", 37 >>, << "TrwRh32", 38 >>,
      << "MotorolaRce", 39 >>, << "Arm", 40 >>, << "DigitalAlpha", 41 >>,
      << "HitachiSuperH", 42 >>, << "SparcV9", 43 >>, << "SiemensTricore", 44 >>,
      << "ArgonautRiscCore", 45 >>, << "HitachiH8300", 46 >>, << "HitachiH8_300H", 47 >>,
      << "HitachiH8S", 48 >>, << "HitachiH8_500", 49 >>, << "IntelA64", 50 >>,
      << "MipsX", 51 >>, << "MotorolaColdfire", 52 >>, << "MotorolaM68Hc12", 53 >>,
      << "FujitsuMma", 54 >>, << "SiemensPcp", 55 >>, << "SonuNcpu", 56 >>,
      << "DensoNdr1", 57 >>, << "MotorolaStarCore", 58 >>, << "ToyotaMe16", 59 >>,
      << "St100", 60 >>, << "TinyJ", 61 >>, << "X86_64", 62 >>, << "SonyDSP", 63 >>,
      << "Pdp10", 64 >>, << "Pdp11", 65 >>, << "SiemensFx66", 66 >>, << "St9Plus", 67 >>,
      << "St7", 68 >>, << "Motorola68Hc16", 69 >>, << "Motorola68Hc11", 70 >>,
      << "Motorola68Hc08", 71 >>, << "Motorola68Hc05", 72 >>, << "Svx", 73 >>,
      << "St19", 74 >>, << "Vax", 75 >>, << "Cris", 76 >>, << "Javelin", 77 >>,
      << "FirePath", 78 >>, << "Zsp", 79 >>, << "TiC6000", 140 >>, << "McstElbrus", 175 >>,
      << "Aarch64", 183 >>, << "RiscV", 243 >>, << "Bpf", 247 >> }

\* enum ProgramType, #[repr(u32)]: the variants and their discriminants.
ProgramType ==
    { << "Null", 0 >>, << "Load", 1 >>, << "Dynamic", 2 >>, << "Interpreter", 3 >>,
      << "Note", 4 >>, << "Shlib", 5 >>, << "ProgramHeader", 6 >>,
      << "ThreadLocalStorage", 7 >> }

\* enum SectionType, #[repr(u32)]: the variants and their discriminants.
SectionType ==
    { << "Null", 0 >>, << "ProgramData", 1 >>, << "SymbolTable", 2 >>, << "StringTable", 3 >>,
      << "RelocationWithAddends", 4 >>, << "SymbolHashTable", 5 >>,
      << "DynamicLinkingTable", 6 >>, << "Note", 7 >>, << "NoBits", 8 >>,
      << "Relocation", 9 >>, << "Shlib", 10 >>, << "DynamicLoaderSymbolTable", 11 >>,
      << "ArrayOfConstructors", 14 >>, << "ArrayOfDestructors", 15 >>,
      << "ArrayOfPreConstructors", 16 >>, << "Group", 17 >>,
      << "ExtendedSectionIndices", 18 >>, << "NumberOfDefinedTypes", 19 >>,
      << "LowEnvironmentSpecific", 1610612736 >>, << "HighEnvironmentSpecific", 1879048191 >>,
      << "LowProcessorSpecific", 1879048192 >>, << "HighProcessorSpecific", 2147483647 >> }

\* The enums that derive ReadWrite.
DerivedEnums ==
    { "Endianness", "Version", "OsAbi", "FileType", "Machine", "ProgramType", "SectionType" }

\* The variants of a derived enum.
Variants(enum) ==
    CASE enum = "Endianness" -> Endianness
      [] enum = "Version" -> Version
      [] enum = "OsAbi" -> OsAbi
      [] enum = "FileType" -> FileType
      [] enum = "Machine" -> Machine
      [] enum = "ProgramType" -> ProgramType
      [] enum = "SectionType" -> SectionType

\* The #[repr(..)] of a derived enum, in bytes.
Repr(enum) ==
    CASE enum = "Endianness" -> 1
      [] enum = "Version" -> 1
      [] enum = "OsAbi" -> 1
      [] enum = "FileType" -> 2
      [] enum = "Machine" -> 2
      [] enum = "ProgramType" -> 4
      [] enum = "SectionType" -> 4

\* The derived `read`: the discriminant is read with the reader of the enum's repr and
\* matched against the variants; no match is an error.
EnumRead(enum, endian, input) ==
    LET number == read_uN(endian, Repr(enum), input) IN
    IF ~number.ok THEN ParseError
    ELSE LET matching == { v \in Variants(enum) : v[2] = number.value } IN
         IF matching = { } THEN ParseError
         ELSE [ ok |-> TRUE, value |-> (CHOOSE v \in matching : TRUE)[1], rest |-> number.rest ]

\* The derived `write`: buffer.write(&N::write_uN(*self as _))
EnumWrite(enum, variant, endian) ==
    LET v == CHOOSE v \in Variants(enum) : v[1] = variant IN
    write_uN(endian, Repr(enum), v[2])

\* enum SymbolBinding
SymbolBinding ==
    { "Local", "Global", "Weak", "LowEnvironmentSpecific", "HighEnvironmentSpecific",
      "LowProcessorSpecific", "HighProcessorSpecific" }

\* enum SymbolType
SymbolType ==
    { "NoType", "Object", "Function", "Section", "File", "LowEnvironmentSpecific",
      "HighEnvironmentSpecific", "LowProcessorSpecific", "HighProcessorSpecific" }

\* Symbol::write: let binding: u8 = match self.binding { .. }
BindingNibble(binding) ==
    CASE binding = "Local" -> 0
      [] binding = "Global" -> 1
      [] binding = "Weak" -> 2
      [] binding = "LowEnvironmentSpecific" -> 10
      [] binding = "HighEnvironmentSpecific" -> 12
      [] binding = "LowProcessorSpecific" -> 13
      [] binding = "HighProcessorSpecific" -> 15

\* Symbol::write: let r#type: u8 = match self.r#type { .. }
TypeNibble(type) ==
    CASE type = "NoType" -> 0
      [] type = "Object" -> 1
      [] type = "Function" -> 2
      [] type = "Section" -> 3
      [] type = "File" -> 4
      [] type = "LowEnvironmentSpecific" -> 10
      [] type = "HighEnvironmentSpecific" -> 12
      [] type = "LowProcessorSpecific" -> 13
      [] type = "HighProcessorSpecific" -> 15

\* Symbol::write: (binding << 4) | (r#type & 0x0f), on u8, written with N::write_u8
BindingAndTypeWrite(binding, type, endian) ==
    write_uN(endian, 1, ((BindingNibble(binding) * 16) % 256) + (TypeNibble(type) % 16))

\* SymbolBinding::read: match binding >> 4 { .. }; the input is returned unadvanced.
SymbolBindingRead(endian, input) ==
    LET number == read_uN(endian, 1, input) IN
    IF ~number.ok THEN ParseError
    ELSE LET nibble == number.value \div 16 IN
         CASE nibble = 0 -> [ ok |-> TRUE, value |-> "Local", rest |-> input ]
           [] nibble = 1 -> [ ok |-> TRUE, value |-> "Global", rest |-> input ]
           [] nibble = 2 -> [ ok |-> TRUE, value |-> "Weak", rest |-> input ]
           [] nibble = 10 -> [ ok |-> TRUE, value |-> "LowEnvironmentSpecific", rest |-> input ]
           [] nibble = 12 -> [ ok |-> TRUE, value |-> "HighProcessorSpecific", rest |-> input ]
           [] nibble = 13 -> [ ok |-> TRUE, value |-> "LowEnvironmentSpecific", rest |-> input ]
           [] nibble = 15 -> [ ok |-> TRUE, value |-> "HighProcessorSpecific", rest |-> input ]
           [] OTHER -> ParseError

\* SymbolType::read: match r#type & 0x0f { .. }; the byte is consumed.
SymbolTypeRead(endian, input) ==
    LET number == read_uN(endian, 1, input) IN
    IF ~number.ok THEN ParseError
    ELSE LET nibble == number.value % 16
             rest == number.rest IN
         CASE nibble = 0 -> [ ok |-> TRUE, value |-> "NoType", rest |-> rest ]
           [] nibble = 1 -> [ ok |-> TRUE, value |-> "Object", rest |-> rest ]
           [] nibble = 2 -> [ ok |-> TRUE, value |-> "Function", rest |-> rest ]
           [] nibble = 3 -> [ ok |-> TRUE, value |-> "Section", rest |-> rest ]
           [] nibble = 4 -> [ ok |-> TRUE, value |-> "File", rest |-> rest ]
           [] nibble = 10 -> [ ok |-> TRUE, value |-> "LowEnvironmentSpecific", rest |-> rest ]
           [] nibble = 12 -> [ ok |-> TRUE, value |-> "HighProcessorSpecific", rest |-> rest ]
           [] nibble = 13 -> [ ok |-> TRUE, value |-> "LowEnvironmentSpecific", rest |-> rest ]
           [] nibble = 15 -> [ ok |-> TRUE, value |-> "HighProcessorSpecific", rest |-> rest ]
           [] OTHER -> ParseError

\* Symbol::read, the second and third parsers of its tuple: the binding, then the type
\* from the input the binding's read returned.
BindingAndTypeRead(endian, input) ==
    LET binding == SymbolBindingRead(endian, input) IN
    IF ~binding.ok THEN ParseError
    ELSE LET type == SymbolTypeRead(endian, binding.rest) IN
         IF ~type.ok THEN ParseError
         ELSE [ ok |-> TRUE, value |-> << binding.value, type.value >>, rest |-> type.rest ]

Endians == { "LittleEndian", "BigEndian" }

\* The values to write: a variant of a derived enum, or the binding and the type of a
\* symbol, which share one byte.
EnumValues ==
    UNION { { [ enum |-> e, variant |-> v[1], binding |-> "none", type |-> "none" ] :
                v \in Variants(e) } : e \in DerivedEnums }
    \cup { [ enum |-> "BindingAndType", variant |-> "none", binding |-> b, type |-> t ] :
             b \in SymbolBinding, t \in SymbolType }

codec_frame ==
    << configuration, available_parallelism, desired_pool_size, pc, result, submitted,
       workers, sender, channel, jobs, work_channel, output_file >>

\* <enum>::write::<N, _>(&mut buffer) on an empty buffer
enum_write ==
    /\ codec.phase = "value"
    /\ codec.of.enum \in DerivedEnums
    /\ codec' = [ codec EXCEPT !.phase = "written",
                               !.bytes = EnumWrite(codec.of.enum, codec.of.variant, codec.endian) ]
    /\ UNCHANGED codec_frame

\* <enum>::read::<N, _>(&buffer)
enum_read ==
    /\ codec.phase = "written"
    /\ codec.of.enum \in DerivedEnums
    /\ codec' = [ codec EXCEPT !.phase = "read",
                               !.read = EnumRead(codec.of.enum, codec.endian, codec.bytes) ]
    /\ UNCHANGED codec_frame

\* Symbol::write, the packed byte of the binding and the type, on an empty buffer
binding_and_type_write ==
    /\ codec.phase = "value"
    /\ codec.of.enum = "BindingAndType"
    /\ codec' = [ codec EXCEPT !.phase = "written",
                               !.bytes = BindingAndTypeWrite(codec.of.binding, codec.of.type,
                                                             codec.endian) ]
    /\ UNCHANGED codec_frame

\* Symbol::read, SymbolBinding::read then SymbolType::read
binding_and_type_read ==
    /\ codec.phase = "written"
    /\ codec.of.enum = "BindingAndType"
    /\ codec' = [ codec EXCEPT !.phase = "read",
                               !.read = BindingAndTypeRead(codec.endian, codec.bytes) ]
    /\ UNCHANGED codec_frame

InitEnum ==
    /\ codec \in [ phase : { "value" }, of : EnumValues, endian : Endians,
                   bytes : { << >> }, read : { ParseError } ]
    /\ configuration = [ binary_format |-> "Elf", input_files |-> << >> ]
    /\ available_parallelism = 0
    /\ desired_pool_size = DesiredPoolSize
    /\ pc = "codec"
    /\ result = NoResult
    /\ submitted = 0
    /\ workers = << >>
    /\ sender = "none"
    /\ channel = << >>
    /\ jobs = << >>
    /\ work_channel = [ queue |-> << >>, senders |-> 0, receiver |-> FALSE ]
    /\ output_file = [ state |-> "untouched", bytes |-> << >> ]

NextEnum ==
    \/ enum_write
    \/ enum_read
    \/ binding_and_type_write
    \/ binding_and_type_read

SpecEnum == InitEnum /\ [][NextEnum]_vars

\* What was written, as the read returns it when it returns what was written.
Written ==
    IF codec.of.enum = "BindingAndType"
    THEN << codec.of.binding, codec.of.type >>
    ELSE codec.of.variant

\* C10: for each enumerated type (Endianness, Version, OsAbi, FileType, Machine,
\* ProgramType, SectionType, SymbolBinding, SymbolType), every variant and both endian
\* strategies, decoding the bytes the encoding produced yields the variant with nothing
\* left over; for SymbolBinding and SymbolType the encoding is the packed byte of
\* Symbol::write, and decoding it yields the same binding and the same type.
C10_EnumRoundTrip ==
    codec.phase = "read" =>
        /\ codec.read.ok
        /\ codec.read.rest = << >>
        /\ codec.read.value = Written

\* The round trip of the enums that derive ReadWrite does hold.
C10_DerivedRoundTrip ==
    (codec.phase = "read" /\ codec.of.enum \in DerivedEnums) =>
        /\ codec.read.ok
        /\ codec.read.rest = << >>
        /\ codec.read.value = Written

(***************************************************************************)
(* weld-object: the read and write of the values of the ELF64 fields       *)
(* (Alignment, Address, Option<Address>, SectionIndex, ProgramFlags,       *)
(* SectionFlags).  A number of a 16-bit, 32-bit or 64-bit field is the set *)
(* of the positions of its bits that are set: 0 is {}, 513 is {0, 9}.      *)
(***************************************************************************)

\* The number a literal of the source denotes.
Bits(n) == { b \in 0 .. 30 : (n \div (2 ^ b)) % 2 = 1 }

\* The byte of a number at `place` (place 0 is the least significant byte).
ByteAt(bits, place) ==
    LET bit(b) == IF (8 * place + b) \in bits THEN 2 ^ b ELSE 0 IN
    bit(0) + bit(1) + bit(2) + bit(3) + bit(4) + bit(5) + bit(6) + bit(7)

\* Number::write_u16, write_u32, write_u64 of LittleEndian (to_le_bytes) and BigEndian
\* (to_be_bytes).
write_bits(endian, width, bits) ==
    [ i \in 1 .. width |->
        ByteAt(bits, IF endian = "LittleEndian" THEN i - 1 ELSE width - i) ]

\* Number::read_u16, read_u32, read_u64 of LittleEndian (le_u16, ..) and BigEndian
\* (be_u16, ..): the number in the first `width` bytes and the bytes after them.
read_bits(endian, width, input) ==
    IF Len(input) < width THEN ParseError
    ELSE [ ok |-> TRUE,
           value |-> { 8 * (IF endian = "LittleEndian" THEN i - 1 ELSE width - i) + b :
                         << i, b >> \in { ib \in (1 .. width) \X (0 .. 7) :
                                            (input[ib[1]] \div (2 ^ ib[2])) % 2 = 1 } },
           rest |-> SubSeq(input, width + 1, Len(input)) ]

\* TryFrom between the integer types: the number fits a field of `width` bytes.
Fits(bits, width) == \A b \in bits : b < 8 * width

\* u64::is_power_of_two
is_power_of_two(bits) == Cardinality(bits) = 1

\* The values: a tag and, where the variant holds a number, the number.
NoValue == [ tag |-> "none", bits |-> { } ]

None == [ tag |-> "None", bits |-> { } ]

Some(bits) == [ tag |-> "Some", bits |-> bits ]

Address(bits) == [ tag |-> "Address", bits |-> bits ]

\* A write that panicked wrote nothing.
WritePanic == [ ok |-> FALSE, bytes |-> << >> ]

Wrote(bytes) == [ ok |-> TRUE, bytes |-> bytes ]

AlignmentReadsAnyNumber(endian, input) ==
    LET number == read_bits(endian, 8, input) IN
    IF ~number.ok THEN ParseError
    ELSE [ ok |-> TRUE,
           value |-> IF number.value = { } THEN None ELSE Some(number.value),
           rest |-> number.rest ]

\* The reading that takes one, like zero, for the absence of an alignment.
AlignmentReadsOneAsNone(endian, input) ==
    LET number == read_bits(endian, 8, input) IN
    IF ~number.ok THEN ParseError
    ELSE IF number.value # { } /\ ~is_power_of_two(number.value) THEN ParseError
    ELSE [ ok |-> TRUE,
           value |-> IF number.value \in { { }, { 0 } } THEN None ELSE Some(number.value),
           rest |-> number.rest ]

\* Alignment::read
AlignmentRead(endian, input) ==
    LET number == read_bits(endian, 8, input) IN
    IF ~number.ok THEN ParseError
    ELSE IF number.value # { } /\ ~is_power_of_two(number.value) THEN ParseError
    ELSE [ ok |-> TRUE,
           value |-> IF number.value = { } THEN None ELSE Some(number.value),
           rest |-> number.rest ]

\* Alignment::write: self.0.map_or(0, NonZeroU64::get)
AlignmentWrite(endian, value) ==
    Wrote(write_bits(endian, 8, IF value.tag = "None" THEN { } ELSE value.bits))

\* <Address as Read<u64>>::read
AddressRead(endian, input) ==
    LET number == read_bits(endian, 8, input) IN
    IF ~number.ok THEN ParseError
    ELSE [ ok |-> TRUE, value |-> Address(number.value), rest |-> number.rest ]

\* <Address as Write<u64>>::write
AddressWrite(endian, value) == Wrote(write_bits(endian, 8, value.bits))

\* <Option<Address> as Read<u64>>::read: zero is None
OptionAddressRead(endian, input) ==
    LET address == AddressRead(endian, input) IN
    IF ~address.ok THEN ParseError
    ELSE [ ok |-> TRUE,
           value |-> IF address.value.bits = { } THEN None ELSE Some(address.value.bits),
           rest |-> address.rest ]

\* <Option<Address> as Write<u64>>::write
OptionAddressWrite(endian, value) ==
    IF value.tag = "Some" THEN AddressWrite(endian, Address(value.bits))
    ELSE Wrote(write_bits(endian, 8, { }))

\* SectionIndex::_read and section_index_write!: the reserved indices.
SectionIndexReserved ==
    { << "Undefined", 0 >>, << "LowProcessorSpecific", 65280 >>,
      << "HighProcessorSpecific", 65311 >>, << "LowEnvironmentSpecific", 65312 >>,
      << "HighEnvironmentSpecific", 65343 >>, << "Absolute", 65521 >>,
      << "Common", 65522 >> }

SectionIndexOk(bits) == [ tag |-> "Ok", bits |-> bits ]

SectionIndexName(name) == [ tag |-> name, bits |-> { } ]

SectionIndexReadsNoReserved(endian, width, input) ==
    LET number == read_bits(endian, width, input) IN
    IF ~number.ok THEN ParseError
    ELSE [ ok |-> TRUE, value |-> SectionIndexOk(number.value), rest |-> number.rest ]

\* <SectionIndex as Read<u16>>::read, <SectionIndex as Read<u32>>::read
SectionIndexRead(endian, width, input) ==
    LET number == read_bits(endian, width, input) IN
    IF ~number.ok THEN ParseError
    ELSE LET reserved == { r \in SectionIndexReserved : Bits(r[2]) = number.value } IN
         [ ok |-> TRUE,
           value |-> IF reserved = { } THEN SectionIndexOk(number.value)
                     ELSE SectionIndexName((CHOOSE r \in reserved : TRUE)[1]),
           rest |-> number.rest ]

\* <SectionIndex as Write<u16>>::write, <SectionIndex as Write<u32>>::write: the cast of
\* an index that does not fit the field panics.
SectionIndexWrite(endian, width, value) ==
    LET number == IF value.tag = "Ok" THEN value.bits
                  ELSE Bits((CHOOSE r \in SectionIndexReserved : r[1] = value.tag)[2]) IN
    IF Fits(number, width) THEN Wrote(write_bits(endian, width, number)) ELSE WritePanic

\* enum ProgramFlag, #[bitflags] #[repr(u32)]
ProgramFlag == { << "Execute", 1 >>, << "Write", 2 >>, << "Read", 4 >> }

\* enum SectionFlag, #[bitflags] #[repr(u64)]
SectionFlag ==
    { << "Writable", 1 >>, << "Allocable", 2 >>, << "Executable", 4 >>, << "Merge", 16 >>,
      << "Strings", 32 >>, << "InfoLink", 64 >>, << "LinkOrder", 128 >>,
      << "OsNonConforming", 256 >>, << "IsPartOfAGroup", 512 >>,
      << "HasThreadLocalData", 1024 >> }

\* BitFlags::ALL_BITS: the bits of the declared flags.
AllBits(flag) == UNION { Bits(f[2]) : f \in flag }

Flags(bits) == [ tag |-> "Flags", bits |-> bits ]

\* The flags a BitFlags value contains.
FlagsOf(flag, value) == { f[1] : f \in { g \in flag : Bits(g[2]) \subseteq value.bits } }

FlagsReadTruncates(flag, endian, width, input) ==
    LET number == read_bits(endian, width, input) IN
    IF ~number.ok THEN ParseError
    ELSE [ ok |-> TRUE, value |-> Flags(number.value \cap AllBits(flag)),
           rest |-> number.rest ]

\* <ProgramFlags as Read>::read, <SectionFlags as Read>::read: BitFlags::from_bits is an
\* error when a bit outside the declared flags is set.
FlagsRead(flag, endian, width, input) ==
    LET number == read_bits(endian, width, input) IN
    IF ~number.ok THEN ParseError
    ELSE IF ~(number.value \subseteq AllBits(flag)) THEN ParseError
    ELSE [ ok |-> TRUE, value |-> Flags(number.value), rest |-> number.rest ]

\* <ProgramFlags as Write>::write, <SectionFlags as Write>::write: self.bits()
FlagsWrite(endian, width, value) == Wrote(write_bits(endian, width, value.bits))

\* The types whose values are read and written, and the width of their field in bytes.
ValueTypes ==
    { "Alignment", "Address", "OptionAddress", "SectionIndexU16", "SectionIndexU32",
      "ProgramFlags", "SectionFlags" }

Width(type) ==
    CASE type = "SectionIndexU16" -> 2
      [] type \in { "SectionIndexU32", "ProgramFlags" } -> 4
      [] OTHER -> 8

\* <T as Read>::read::<N, _>(input)
ValueRead(type, endian, input) ==
    CASE type = "Alignment" -> AlignmentRead(endian, input)
      [] type = "Address" -> AddressRead(endian, input)
      [] type = "OptionAddress" -> OptionAddressRead(endian, input)
      [] type = "SectionIndexU16" -> SectionIndexRead(endian, 2, input)
      [] type = "SectionIndexU32" -> SectionIndexRead(endian, 4, input)
      [] type = "ProgramFlags" -> FlagsRead(ProgramFlag, endian, 4, input)
      [] type = "SectionFlags" -> FlagsRead(SectionFlag, endian, 8, input)

\* <T as Write>::write::<N, _>(&value, &mut buffer) on an empty buffer
ValueWrite(type, endian, value) ==
    CASE type = "Alignment" -> AlignmentWrite(endian, value)
      [] type = "Address" -> AddressWrite(endian, value)
      [] type = "OptionAddress" -> OptionAddressWrite(endian, value)
      [] type = "SectionIndexU16" -> SectionIndexWrite(endian, 2, value)
      [] type = "SectionIndexU32" -> SectionIndexWrite(endian, 4, value)
      [] type = "ProgramFlags" -> FlagsWrite(endian, 4, value)
      [] type = "SectionFlags" -> FlagsWrite(endian, 8, value)

\* The numbers of 64 bits that are tried, next to all the powers of two.
SampleBits == { 0, 1, 9, 31, 32, 63 }

\* The section indices that are tried.
SampleIndices == { 0, 1, 42, 65280, 65311, 65312, 65343, 65521, 65522, 65535, 65536 }

\* The values of a type that are written and read back.
Values(type) ==
    CASE type = "Alignment" ->
           { None } \cup { Some({ b }) : b \in 0 .. 63 }
                    \cup { Some(bits) : bits \in (SUBSET SampleBits) \ { { } } }
      [] type = "Address" -> { Address(bits) : bits \in SUBSET SampleBits }
      [] type = "OptionAddress" -> { None } \cup { Some(bits) : bits \in SUBSET SampleBits }
      [] type \in { "SectionIndexU16", "SectionIndexU32" } ->
           { SectionIndexName(r[1]) : r \in SectionIndexReserved }
             \cup { SectionIndexOk(Bits(n)) : n \in SampleIndices }
      [] type = "ProgramFlags" -> { Flags(bits) : bits \in SUBSET AllBits(ProgramFlag) }
      [] type = "SectionFlags" -> { Flags(bits) : bits \in SUBSET AllBits(SectionFlag) }

\* The numbers whose bytes are given to a read.
InputNumbers(type) ==
    CASE type \in { "Alignment", "Address", "OptionAddress" } -> SUBSET SampleBits
      [] type = "SectionIndexU16" -> { Bits(n) : n \in SampleIndices \ { 65536 } }
      [] type = "SectionIndexU32" -> { Bits(n) : n \in SampleIndices } \cup { { 31 } }
      [] type = "ProgramFlags" -> SUBSET { 0, 1, 2, 3, 31 }
      [] type = "SectionFlags" -> SUBSET { 0, 2, 3, 4, 10, 11, 63 }

\* The inputs given to a read: the bytes of a number, alone or followed by one more byte,
\* and inputs that are too short.
Inputs(type) ==
    LET whole == { write_bits("LittleEndian", Width(type), n) : n \in InputNumbers(type) } IN
    whole \cup { Append(bytes, 7) : bytes \in whole }
          \cup { SubSeq(bytes, 1, Width(type) - 1) : bytes \in whole }
          \cup { << >> }

value_frame ==
    << configuration, available_parallelism, desired_pool_size, pc, result, submitted,
       workers, sender, channel, jobs, work_channel, output_file >>

\* value.write::<N, _>(&mut buffer) on an empty buffer
value_write ==
    /\ codec.phase = "value"
    /\ LET written == ValueWrite(codec.type, codec.endian, codec.of) IN
        codec' = [ codec EXCEPT !.phase = IF written.ok THEN "bytes" ELSE "panicked",
                                !.bytes = written.bytes ]
    /\ UNCHANGED value_frame

\* T::read::<N, _>(&bytes)
value_read ==
    /\ codec.phase = "bytes"
    /\ codec' = [ codec EXCEPT !.phase = "read",
                               !.read = ValueRead(codec.type, codec.endian, codec.bytes) ]
    /\ UNCHANGED value_frame

\* The value a read returned is written to an empty buffer.
value_write_back ==
    /\ codec.phase = "read"
    /\ codec.read.ok
    /\ LET written == ValueWrite(codec.type, codec.endian, codec.read.value) IN
        codec' = [ codec EXCEPT !.phase = IF written.ok THEN "written_back" ELSE "panicked",
                                !.back = written.bytes ]
    /\ UNCHANGED value_frame

InitValue ==
    /\ \E type \in ValueTypes, endian \in Endians :
         \/ \E value \in Values(type) :
              codec = [ phase |-> "value", type |-> type, endian |-> endian, of |-> value,
                        bytes |-> << >>, read |-> ParseError, back |-> << >> ]
         \/ \E input \in Inputs(type) :
              codec = [ phase |-> "bytes", type |-> type, endian |-> endian, of |-> NoValue,
                        bytes |-> input, read |-> ParseError, back |-> << >> ]
    /\ configuration = [ binary_format |-> "Elf", input_files |-> << >> ]
    /\ available_parallelism = 0
    /\ desired_pool_size = DesiredPoolSize
    /\ pc = "codec"
    /\ result = NoResult
    /\ submitted = 0
    /\ workers = << >>
    /\ sender = "none"
    /\ channel = << >>
    /\ jobs = << >>
    /\ work_channel = [ queue |-> << >>, senders |-> 0, receiver |-> FALSE ]
    /\ output_file = [ state |-> "untouched", bytes |-> << >> ]

NextValue ==
    \/ value_write
    \/ value_read
    \/ value_write_back

SpecValue == InitValue /\ [][NextValue]_vars

\* A read of the bytes written for a value has returned.
ReadBack(type) == codec.phase = "read" /\ codec.type = type /\ codec.of # NoValue

\* The number in the first bytes of what is read, when there are enough bytes.
NumberRead == read_bits(codec.endian, Width(codec.type), codec.bytes)

\* The read returned the value that was written, and nothing is left of the bytes.
RoundTrip == codec.read.ok /\ codec.read.rest = << >> /\ codec.read.value = codec.of

\* C11: in both endian strategies, for None and for every power of two a, reading the 8
\* bytes written for the alignment returns the same alignment and an empty remainder;
\* None is written as zero; reading a non-zero number that is not a power of two is a
\* parse error.
C11_AlignmentRoundTrip ==
    /\ (ReadBack("Alignment") /\ (codec.of = None \/ is_power_of_two(codec.of.bits)))
          => (RoundTrip /\ Len(codec.bytes) = 8)
    /\ (codec.type = "Alignment" /\ codec.of = None /\ codec.phase = "bytes")
          => codec.bytes = << 0, 0, 0, 0, 0, 0, 0, 0 >>
    /\ (codec.type = "Alignment" /\ codec.phase = "read" /\ NumberRead.ok
          /\ Cardinality(NumberRead.value) >= 2) => ~codec.read.ok

C11_Witness ==
    /\ ReadBack("Alignment")
    /\ codec.endian = "BigEndian"
    /\ codec.of = Some({ 9 })
    /\ codec.bytes = << 0, 0, 0, 0, 0, 0, 2, 0 >>
    /\ codec.read.ok

RoundTripTypes == { "Address", "OptionAddress", "SectionIndexU16", "SectionIndexU32" }

\* C12, as claimed: in both endian strategies read(write(v)) returns v and an empty
\* remainder for every Address, for every Option<Address> (None, and Some(a) for every
\* 64-bit a) and for every SectionIndex (each reserved name, and Ok(n) for every n that
\* fits the 16-bit, respectively 32-bit, field); the write of such a value does not panic.
C12_ValueRoundTrip ==
    codec.type \in RoundTripTypes =>
        /\ (codec.phase = "read" /\ codec.of # NoValue) => RoundTrip
        /\ codec.phase = "panicked" => ~Fits(codec.of.bits, Width(codec.type))

\* The numbers the reserved section indices are written as.
ReservedNumbers == { Bits(r[2]) : r \in SectionIndexReserved }

\* The value is the one a read returns for the bytes the value is written as.
Canonical(value) ==
    /\ ~(value.tag = "Some" /\ value.bits = { })
    /\ ~(value.tag = "Ok" /\ value.bits \in ReservedNumbers)

\* C12, amended: in both endian strategies read(write(v)) returns v and an empty
\* remainder for every Address, for None and Some(a) with a # 0, for each reserved
\* SectionIndex name and for Ok(n) with n fitting the field and n none of the reserved
\* numbers (0, 0xff00, 0xff1f, 0xff20, 0xff3f, 0xfff1, 0xfff2); Some(Address(0)) reads
\* back as None, and Ok(n) with n a reserved number reads back as the reserved name.
C12_CanonicalValueRoundTrip ==
    codec.type \in RoundTripTypes =>
        /\ (codec.phase = "read" /\ codec.of # NoValue) =>
             /\ codec.read.ok
             /\ codec.read.rest = << >>
             /\ Canonical(codec.of) => codec.read.value = codec.of
             /\ (codec.of.tag = "Some" /\ codec.of.bits = { }) => codec.read.value = None
             /\ (codec.of.tag = "Ok" /\ codec.of.bits \in ReservedNumbers) =>
                  \E r \in SectionIndexReserved :
                      /\ Bits(r[2]) = codec.of.bits
                      /\ codec.read.value = SectionIndexName(r[1])
        /\ codec.phase = "panicked" => ~Fits(codec.of.bits, Width(codec.type))

C12_Witness ==
    /\ ReadBack("SectionIndexU32")
    /\ codec.endian = "BigEndian"
    /\ codec.of = SectionIndexOk(Bits(65535))
    /\ codec.bytes = << 0, 0, 255, 255 >>
    /\ RoundTrip

\* The positions of the bits 0x1, 0x2, 0x4, and of the bits 0x1, 0x2, 0x4, 0x10, 0x20,
\* 0x40, 0x80, 0x100, 0x200, 0x400.
DeclaredBits(type) ==
    IF type = "ProgramFlags" THEN { 0, 1, 2 } ELSE { 0, 1, 2, 4, 5, 6, 7, 8, 9, 10 }

FlagTable(type) == IF type = "ProgramFlags" THEN ProgramFlag ELSE SectionFlag

\* C13: reading ProgramFlags (32-bit field) or SectionFlags (64-bit field) fails if and
\* only if a bit outside the declared ones is set; otherwise the read yields exactly the
\* set of the flags whose bits are set; write emits exactly the bit pattern of the flags;
\* write-then-read and read-then-write are identities for every subset of the flags.
C13_FlagsReadWrite ==
    codec.type \in { "ProgramFlags", "SectionFlags" } =>
        /\ (codec.phase \in { "read", "written_back" } /\ NumberRead.ok) =>
             /\ codec.read.ok <=> NumberRead.value \subseteq DeclaredBits(codec.type)
             /\ codec.read.ok =>
                  /\ codec.read.value.bits = NumberRead.value
                  /\ FlagsOf(FlagTable(codec.type), codec.read.value)
                       = { f[1] : f \in { g \in FlagTable(codec.type) :
                                            Bits(g[2]) \subseteq NumberRead.value } }
                  /\ codec.read.rest = SubSeq(codec.bytes, Width(codec.type) + 1,
                                              Len(codec.bytes))
        /\ (codec.phase = "bytes" /\ codec.of # NoValue) =>
             /\ Len(codec.bytes) = Width(codec.type)
             /\ NumberRead.value = codec.of.bits
        /\ (codec.phase = "read" /\ codec.of # NoValue) => RoundTrip
        /\ codec.phase = "written_back" =>
             codec.back = SubSeq(codec.bytes, 1, Width(codec.type))
        /\ codec.phase # "panicked"

C13_Witness ==
    /\ codec.type = "SectionFlags"
    /\ codec.phase = "written_back"
    /\ codec.of = NoValue
    /\ FlagsOf(SectionFlag, codec.read.value) = { "Executable", "HasThreadLocalData" }
    /\ codec.back = codec.bytes

(***************************************************************************)
(* weld-object: Data::string_at_offset.                                    *)
(***************************************************************************)

\* The longest data that is tried.
MaxData == 4

\* The bytes the data is made of: the terminator, `a` and `b`.
DataBytes == { 0, 97, 98 }

\* enum DataType
DataType == { "StringTable", "SymbolTable", "ProgramData", "Unspecified" }

\* Data::new(inner, type, ..)
Data(inner, type) == [ inner |-> inner, type |-> type ]

\* Option<Cow<BStr>>
NoString == [ some |-> FALSE, panic |-> FALSE, bytes |-> << >> ]

SomeString(bytes) == [ some |-> TRUE, panic |-> FALSE, bytes |-> bytes ]

\* A slice whose start is past the end panics.
SlicePanic == [ some |-> FALSE, panic |-> TRUE, bytes |-> << >> ]

RECURSIVE Position(_, _)
\* name.iter().position(|c| *c == 0x00), from the i-th byte of `name` on: the number of
\* bytes before the first zero byte, -1 when there is none.
Position(name, i) ==
    IF i > Len(name) THEN -1
    ELSE IF name[i] = 0 THEN i - 1
    ELSE Position(name, i + 1)

StringAtOffsetUnchecked(data, offset) ==
    IF data.type # "StringTable" THEN NoString
    ELSE IF offset > Len(data.inner) THEN SlicePanic
    ELSE LET name == SubSeq(data.inner, offset + 1, Len(data.inner))
             name_end == Position(name, 1) IN
         IF name_end = -1 THEN NoString ELSE SomeString(SubSeq(name, 1, name_end))

\* Data::string_at_offset
StringAtOffset(data, offset) ==
    IF data.type # "StringTable" THEN NoString
    ELSE IF offset >= Len(data.inner) THEN NoString
    ELSE LET name == SubSeq(data.inner, offset + 1, Len(data.inner))
             name_end == Position(name, 1) IN
         IF name_end = -1 THEN NoString ELSE SomeString(SubSeq(name, 1, name_end))

\* The variables of the linker and of the pool, when neither is running.
NoLinker ==
    /\ configuration = [ binary_format |-> "Elf", input_files |-> << >> ]
    /\ available_parallelism = 0
    /\ desired_pool_size = DesiredPoolSize
    /\ pc = "codec"
    /\ result = NoResult
    /\ submitted = 0
    /\ workers = << >>
    /\ sender = "none"
    /\ channel = << >>
    /\ jobs = << >>
    /\ work_channel = [ queue |-> << >>, senders |-> 0, receiver |-> FALSE ]
    /\ output_file = [ state |-> "untouched", bytes |-> << >> ]

\* data.string_at_offset(offset)
string_at_offset ==
    /\ codec.phase = "data"
    /\ codec' = [ codec EXCEPT !.phase = "returned",
                               !.string = StringAtOffset(codec.data, codec.offset) ]
    /\ UNCHANGED value_frame

InitData ==
    /\ \E length \in 0 .. MaxData :
         \E inner \in [ 1 .. length -> DataBytes ], type \in DataType,
            offset \in 0 .. MaxData + 1 :
             codec = [ phase |-> "data", data |-> Data(inner, type), offset |-> offset,
                       string |-> NoString ]
    /\ NoLinker

NextData == string_at_offset

SpecData == InitData /\ [][NextData]_vars

\* The offsets k >= i of the zero bytes of the data (offsets count from 0).
ZerosFrom(inner, i) == { k \in i .. Len(inner) - 1 : inner[k + 1] = 0 }

\* C14: string_at_offset(i) on a StringTable returns the bytes [i, j), j being the
\* smallest k >= i with data[k] = 0 (the empty string when data[i] = 0), and None when
\* i >= len or no zero byte is at or after i; on another type it returns None for every
\* i; it never reads outside the data, and it leaves the data unchanged.
C14_StringAtOffset ==
    /\ [](codec.phase = "returned" =>
            LET inner == codec.data.inner
                zeros == ZerosFrom(inner, codec.offset) IN
            /\ ~codec.string.panic
            /\ (codec.data.type = "StringTable" /\ zeros # { }) =>
                 LET j == CHOOSE k \in zeros : \A m \in zeros : k <= m IN
                 /\ codec.string = SomeString(SubSeq(inner, codec.offset + 1, j))
                 /\ inner[codec.offset + 1] = 0 => codec.string = SomeString(<< >>)
            /\ (codec.data.type # "StringTable" \/ zeros = { }) => codec.string = NoString
            /\ codec.offset >= Len(inner) => codec.string = NoString)
    /\ [][codec'.data = codec.data /\ codec'.offset = codec.offset]_vars

C14_Witness ==
    /\ codec.phase = "returned"
    /\ codec.data = Data(<< 97, 98, 0, 97 >>, "StringTable")
    /\ codec.offset = 1
    /\ codec.string = SomeString(<< 98 >>)

(***************************************************************************)
(* weld-object: File::read, Program::read, Section::read, on the bytes of  *)
(* a file.                                                                 *)
(***************************************************************************)

\* A slice or a cast panicked.
ReadPanic == [ ok |-> FALSE, panic |-> TRUE ]

IsPanic(read) == "panic" \in DOMAIN read

\* combinators::skip(count)
skip(count, input) ==
    IF Len(input) < count THEN ParseError
    ELSE [ ok |-> TRUE, value |-> << >>, rest |-> SubSeq(input, count + 1, Len(input)) ]

\* nom's tag(bytes)
tag(bytes, input) ==
    IF Len(input) < Len(bytes) \/ SubSeq(input, 1, Len(bytes)) # bytes THEN ParseError
    ELSE [ ok |-> TRUE, value |-> bytes, rest |-> SubSeq(input, Len(bytes) + 1, Len(input)) ]

\* <Address as Read<u32>>::read
AddressU32Read(endian, input) ==
    LET number == read_bits(endian, 4, input) IN
    IF ~number.ok THEN ParseError
    ELSE [ ok |-> TRUE, value |-> Address(number.value), rest |-> number.rest ]

\* One parser of a tuple((..)), named by what it reads.
ReadField(kind, endian, input) ==
    CASE kind \in DerivedEnums -> EnumRead(kind, endian, input)
      [] kind \in ValueTypes -> ValueRead(kind, endian, input)
      [] kind = "AddressU32" -> AddressU32Read(endian, input)
      [] kind = "skip2" -> skip(2, input)
      [] kind = "skip4" -> skip(4, input)
      [] kind = "skip8" -> skip(8, input)
      [] kind = "u8" -> read_uN(endian, 1, input)
      [] kind = "u16" -> read_uN(endian, 2, input)
      [] kind = "u32" -> read_bits(endian, 4, input)
      [] kind = "u64" -> read_bits(endian, 8, input)

RECURSIVE tuple(_, _, _, _)

\* nom's tuple((..)): the value of a parser and the values of the parsers after it.
TupleCons(first, others) ==
    IF ~others.ok THEN ParseError
    ELSE [ ok |-> TRUE, value |-> << first.value >> \o others.value, rest |-> others.rest ]

\* nom's tuple((..)): after the i-th parser returned `first`, the parsers after it on what
\* it left; its error is the error.
TupleAfter(fields, endian, i, first) ==
    IF ~first.ok THEN ParseError
    ELSE TupleCons(first, tuple(fields, endian, first.rest, i + 1))

\* nom's tuple((..)): the parsers `fields` (each << name, kind >>) from the i-th on, one
\* after the other on what the one before left; the first error is the error.
tuple(fields, endian, input, i) ==
    IF i > Len(fields) THEN [ ok |-> TRUE, value |-> << >>, rest |-> input ]
    ELSE TupleAfter(fields, endian, i, ReadField(fields[i][2], endian, input))

\* The values a tuple((..)) returned, by the names of its fields.
Named(fields, values) ==
    [ name \in { fields[i][1] : i \in DOMAIN fields } |->
        values[CHOOSE i \in DOMAIN fields : fields[i][1] = name] ]

\* File::read_with_endianness: the fields of the file header after the identification.
FileHeaderFields ==
    << << "version", "Version" >>, << "os_abi", "OsAbi" >>, << "_padding", "skip8" >>,
       << "type", "FileType" >>, << "machine", "Machine" >>, << "_version_bis", "skip4" >>,
       << "entry_point", "OptionAddress" >>, << "ph_offset", "Address" >>,
       << "sh_offset", "Address" >>, << "processor_flags", "u32" >>,
       << "_fh_size", "skip2" >>, << "ph_entry_size", "u16" >>, << "ph_number", "u16" >>,
       << "sh_entry_size", "u16" >>, << "sh_number", "u16" >>,
       << "section_index_for_section_names", "SectionIndexU16" >> >>

\* Program::read: the fields of a program header.
ProgramFields ==
    << << "type", "ProgramType" >>, << "segment_flags", "ProgramFlags" >>,
       << "offset", "Address" >>, << "virtual_address", "Address" >>,
       << "physical_address", "OptionAddress" >>,
       << "segment_size_in_file_image", "Address" >>,
       << "segment_size_in_memory", "Address" >>, << "alignment", "Alignment" >> >>

\* Section::read: the fields of a section header.
SectionFields ==
    << << "name_offset", "AddressU32" >>, << "type", "SectionType" >>,
       << "flags", "SectionFlags" >>, << "virtual_address", "Address" >>,
       << "offset", "Address" >>, << "segment_size_in_file_image", "Address" >>,
       << "link", "SectionIndexU32" >>, << "information", "u32" >>,
       << "alignment", "Alignment" >>, << "entity_size", "u64" >> >>

\* A number of more than 20 bits is past the end of every file that is tried.
Huge == 2097152

RECURSIVE Sum(_)
Sum(numbers) ==
    IF numbers = { } THEN 0
    ELSE LET n == CHOOSE n \in numbers : TRUE IN n + Sum(numbers \ { n })

\* impl From<Address> for usize, as far as an index into a file tells numbers apart.
Usize(bits) ==
    IF \E b \in bits : b > 20 THEN Huge ELSE Sum({ 2 ^ b : b \in bits })

\* &file[offset..][..size]: the slice, and whether taking it panics.
Slice(file, offset, size) ==
    IF offset > Len(file) \/ size > Len(file) - offset THEN ReadPanic
    ELSE [ ok |-> TRUE, value |-> SubSeq(file, offset + 1, offset + size) ]

\* Program::read, Ok((input, Program { .. })): the program of the fields of its header
\* and of its data.
ProgramOf(field, data, rest) ==
    IF IsPanic(data) THEN ReadPanic
    ELSE [ ok |-> TRUE,
           value |-> [ type |-> field.type,
                       segment_flags |-> field.segment_flags,
                       offset |-> field.offset,
                       virtual_address |-> field.virtual_address,
                       physical_address |-> field.physical_address,
                       segment_size_in_file_image |-> field.segment_size_in_file_image,
                       segment_size_in_memory |-> field.segment_size_in_memory,
                       alignment |-> field.alignment,
                       data |-> Data(data.value, "ProgramData") ],
           rest |-> rest ]

\* Program::read, after the tuple: the data of the program is taken from the file.
ProgramOfFields(field, file, rest) ==
    ProgramOf(field,
              Slice(file, Usize(field.offset.bits),
                    Usize(field.segment_size_in_file_image.bits)),
              rest)

\* Program::read, the `?` on the tuple.
ProgramOfHeader(header, file) ==
    IF ~header.ok THEN ParseError
    ELSE ProgramOfFields(Named(ProgramFields, header.value), file, header.rest)

\* Program::read(input, file)
ProgramRead(endian, input, file) ==
    ProgramOfHeader(tuple(ProgramFields, endian, input, 1), file)

\* impl From<SectionType> for DataType
DataTypeFrom(section_type) ==
    IF section_type \in { "StringTable", "SymbolTable", "ProgramData" } THEN section_type
    ELSE "Unspecified"

\* Section::read, Ok((input, Section { .. })): the section of the fields of its header
\* and of its data; its name is None.
SectionOf(field, data, rest) ==
    IF IsPanic(data) THEN ReadPanic
    ELSE [ ok |-> TRUE,
           value |-> [ name |-> NoString,
                       name_offset |-> field.name_offset,
                       type |-> field.type,
                       flags |-> field.flags,
                       virtual_address |-> field.virtual_address,
                       offset |-> field.offset,
                       segment_size_in_file_image |-> field.segment_size_in_file_image,
                       link |-> field.link,
                       information |-> field.information,
                       alignment |-> field.alignment,
                       entity_size |-> field.entity_size,
                       data |-> Data(data.value, DataTypeFrom(field.type)) ],
           rest |-> rest ]

\* Section::read, after the tuple: the data of the section is taken from the file.
SectionOfFields(field, file, rest) ==
    SectionOf(field,
              Slice(file, Usize(field.offset.bits),
                    Usize(field.segment_size_in_file_image.bits)),
              rest)

\* Section::read, the `?` on the tuple.
SectionOfHeader(header, file) ==
    IF ~header.ok THEN ParseError
    ELSE SectionOfFields(Named(SectionFields, header.value), file, header.rest)

\* Section::read(input, file)
SectionRead(endian, input, file) ==
    SectionOfHeader(tuple(SectionFields, endian, input, 1), file)

\* The i-th chunk (from 0) of table.chunks_exact(entry_size)
Chunk(table, entry_size, i) == SubSeq(table, i * entry_size + 1, (i + 1) * entry_size)

\* table.chunks_exact(entry_size).take(number): how many chunks the loop visits.
ChunksTaken(table, entry_size, number) == Min(number, Len(table) \div entry_size)

RECURSIVE ReadEntries(_, _, _, _, _, _, _)

\* Program::read::<N, _>(ph_slice, file), Section::read::<N, _>(sh_slice, file)
EntryRead(kind, endian, chunk, file) ==
    IF kind = "Program" THEN ProgramRead(endian, chunk, file)
    ELSE SectionRead(endian, chunk, file)

\* programs.push(ph), sections.push(sh): an entry and the entries of the chunks after it.
EntriesCons(entry, others) ==
    IF IsPanic(others) THEN ReadPanic
    ELSE IF ~others.ok THEN ParseError
    ELSE [ ok |-> TRUE, value |-> << entry.value >> \o others.value ]

\* The loop after the i-th chunk was read as `entry`: the `?` on it, then the chunks
\* after it.
EntriesAfter(kind, endian, table, entry_size, taken, file, i, entry) ==
    IF IsPanic(entry) THEN ReadPanic
    ELSE IF ~entry.ok THEN ParseError
    ELSE EntriesCons(entry,
                     ReadEntries(kind, endian, table, entry_size, taken, file, i + 1))

\* File::read_with_endianness, the loop over the program headers (kind "Program") or the
\* section headers (kind "Section") from the i-th chunk on: the entries read, or the
\* first error, or a panic.
ReadEntries(kind, endian, table, entry_size, taken, file, i) ==
    IF i >= taken THEN [ ok |-> TRUE, value |-> << >> ]
    ELSE EntriesAfter(kind, endian, table, entry_size, taken, file, i,
                      EntryRead(kind, endian, Chunk(table, entry_size, i), file))

\* File::read_with_endianness, one of the two tables: nothing is read when the entry size
\* is 0; file[offset..] panics when the offset is past the end of the file.
ReadTable(kind, endian, file, offset, entry_size, number) ==
    IF entry_size = 0 THEN [ ok |-> TRUE, value |-> << >> ]
    ELSE IF Usize(offset.bits) > Len(file) THEN ReadPanic
    ELSE LET table == SubSeq(file, Usize(offset.bits) + 1, Len(file)) IN
         ReadEntries(kind, endian, table, entry_size,
                     ChunksTaken(table, entry_size, number), file, 0)

\* File::read_with_endianness, Ok((&[], file)): the file of the fields of its header and
\* of its tables.
FileOf(endianness, field, programs, sections) ==
    IF IsPanic(sections) THEN ReadPanic
    ELSE IF ~sections.ok THEN ParseError
    ELSE [ ok |-> TRUE,
           value |-> [ endianness |-> endianness,
                       version |-> field.version,
                       os_abi |-> field.os_abi,
                       type |-> field.type,
                       machine |-> field.machine,
                       processor_flags |-> field.processor_flags,
                       entry_point |-> field.entry_point,
                       programs |-> programs.value,
                       sections |-> sections.value,
                       section_index_for_section_names |->
                           field.section_index_for_section_names ],
           rest |-> << >> ]

\* File::read_with_endianness, after the program headers: the section headers.
FileOfPrograms(endian, file, endianness, field, programs) ==
    IF IsPanic(programs) THEN ReadPanic
    ELSE IF ~programs.ok THEN ParseError
    ELSE FileOf(endianness, field, programs,
                ReadTable("Section", endian, file, field.sh_offset, field.sh_entry_size,
                          field.sh_number))

\* File::read_with_endianness, after the tuple: the program headers.
FileOfFields(endian, file, endianness, field) ==
    FileOfPrograms(endian, file, endianness, field,
                   ReadTable("Program", endian, file, field.ph_offset, field.ph_entry_size,
                             field.ph_number))

\* File::read_with_endianness, the `?` on the tuple.
FileOfHeader(endian, file, endianness, header) ==
    IF ~header.ok THEN ParseError
    ELSE FileOfFields(endian, file, endianness, Named(FileHeaderFields, header.value))

\* File::read_with_endianness
read_with_endianness(endian, file, input, endianness) ==
    FileOfHeader(endian, file, endianness, tuple(FileHeaderFields, endian, input, 1))

\* File::read, after the endianness was read: the strategy of the file's byte order.
FileOfEndianness(file, endianness) ==
    IF ~endianness.ok THEN ParseError
    ELSE read_with_endianness(
             IF endianness.value = "Big" THEN "BigEndian" ELSE "LittleEndian",
             file, endianness.rest, endianness.value)

\* File::read, after tag(File::ELF64)
FileOfClass(file, class) ==
    IF ~class.ok THEN ParseError
    ELSE FileOfEndianness(file, EnumRead("Endianness", "LittleEndian", class.rest))

\* File::read, after tag(File::MAGIC)
FileOfMagic(file, magic) ==
    IF ~magic.ok THEN ParseError ELSE FileOfClass(file, tag(ELF64, magic.rest))

\* File::read
FileRead(file) == FileOfMagic(file, tag(MAGIC, file))

\* <Address as Write<u32>>::write: the cast of an address that does not fit panics.
AddressU32Write(endian, value) ==
    IF Fits(value.bits, 4) THEN Wrote(write_bits(endian, 4, value.bits)) ELSE WritePanic

RECURSIVE WriteAll(_, _)
\* The writes of a sequence of fields into one buffer, each `?`-chained: the bytes of all
\* of them, or the panic of the first that panics.
WriteAll(writes, i) ==
    IF i > Len(writes) THEN Wrote(<< >>)
    ELSE IF ~writes[i].ok THEN WritePanic
    ELSE LET others == WriteAll(writes, i + 1) IN
         IF ~others.ok THEN WritePanic ELSE Wrote(writes[i].bytes \o others.bytes)

\* <Program as Write>::write
ProgramWrite(endian, program) ==
    WriteAll(<< Wrote(EnumWrite("ProgramType", program.type, endian)),
                FlagsWrite(endian, 4, program.segment_flags),
                AddressWrite(endian, program.offset),
                AddressWrite(endian, program.virtual_address),
                OptionAddressWrite(endian, program.physical_address),
                AddressWrite(endian, program.segment_size_in_file_image),
                AddressWrite(endian, program.segment_size_in_memory),
                AlignmentWrite(endian, program.alignment) >>, 1)

\* <Section as Write>::write
SectionWrite(endian, section) ==
    WriteAll(<< AddressU32Write(endian, section.name_offset),
                Wrote(EnumWrite("SectionType", section.type, endian)),
                FlagsWrite(endian, 8, section.flags),
                AddressWrite(endian, section.virtual_address),
                AddressWrite(endian, section.offset),
                AddressWrite(endian, section.segment_size_in_file_image),
                SectionIndexWrite(endian, 4, section.link),
                Wrote(write_bits(endian, 4, section.information)),
                AlignmentWrite(endian, section.alignment),
                Wrote(write_bits(endian, 8, section.entity_size)) >>, 1)

\* The file header, field by field in the order File::read reads it and
\* FileBuilder::build_with_endianness writes it.
FileHeaderWrite(endian, header) ==
    WriteAll(<< Wrote(MAGIC),
                Wrote(ELF64),
                Wrote(EnumWrite("Endianness", header.endianness, "LittleEndian")),
                Wrote(EnumWrite("Version", header.version, endian)),
                Wrote(EnumWrite("OsAbi", header.os_abi, endian)),
                Wrote(<< 0, 0, 0, 0, 0, 0, 0, 0 >>),
                Wrote(EnumWrite("FileType", header.type, endian)),
                Wrote(EnumWrite("Machine", header.machine, endian)),
                Wrote(<< 0, 0, 0, 0 >>),
                OptionAddressWrite(endian, header.entry_point),
                AddressWrite(endian, header.ph_offset),
                AddressWrite(endian, header.sh_offset),
                Wrote(write_bits(endian, 4, header.processor_flags)),
                Wrote(write_uN(endian, 2, header.fh_size)),
                Wrote(write_uN(endian, 2, header.ph_entry_size)),
                Wrote(write_uN(endian, 2, header.ph_number)),
                Wrote(write_uN(endian, 2, header.sh_entry_size)),
                Wrote(write_uN(endian, 2, header.sh_number)),
                SectionIndexWrite(endian, 2, header.section_index_for_section_names) >>, 1)

(***************************************************************************)
(* The object files given to File::read.  A file is laid out as: the file  *)
(* header, the data of the sections, the program headers, the section      *)
(* headers.                                                                *)
(***************************************************************************)

\* The most program headers, and the most sections after the null section, of a file.
MaxPrograms == 2

MaxSections == 2

\* File::SIZE
FileSIZE == 64

\* The bytes Program::write writes.
ProgramSIZE == 56

\* The bytes Section::write writes.
SectionSIZE == 64

\* A table of section names: "\0.strtab\0.text\0.symtab\0.shstrtab\0"; `.strtab` is at
\* offset 1, `.text` at 9, `.symtab` at 15, `.shstrtab` at 23.
NamesTable ==
    << 0, 46, 115, 116, 114, 116, 97, 98, 0, 46, 116, 101, 120, 116, 0,
       46, 115, 121, 109, 116, 97, 98, 0, 46, 115, 104, 115, 116, 114, 116, 97, 98, 0 >>

\* The kinds of sections of the files: the null section; a table of section names named
\* `.shstrtab`; a table of section names named `.strtab`; a string table named `.strtab`;
\* a string table named `.text`; program data named `.text`; program data named
\* `.strtab`; program data whose name offset is past the table of names.
SectionKinds ==
    { "shstrtab", "names_strtab", "strtab", "strings", "text", "fake", "nameless" }

KindType(kind) ==
    CASE kind = "null" -> "Null"
      [] kind \in { "shstrtab", "names_strtab", "strtab", "strings" } -> "StringTable"
      [] kind = "bss" -> "NoBits"
      [] OTHER -> "ProgramData"

KindNameOffset(kind) ==
    CASE kind = "null" -> 0
      [] kind \in { "names_strtab", "strtab", "fake" } -> 1
      [] kind \in { "strings", "text" } -> 9
      [] kind = "shstrtab" -> 23
      [] kind = "nameless" -> 40
      [] kind = "bss" -> 0

KindData(kind) ==
    CASE kind = "null" -> << >>
      [] kind \in { "shstrtab", "names_strtab" } -> NamesTable
      [] kind = "strtab" -> << 0, 97, 0 >>
      [] kind = "strings" -> << 0, 98, 0 >>
      [] kind = "bss" -> << >>
      [] OTHER -> << 144, 195 >>

\* The size of a zero-initialised section `.bss`, which has no bytes in the file.
BssSize == 4096

\* The size the header of a section of a kind declares.
KindSize(kind) == IF kind = "bss" THEN BssSize ELSE Len(KindData(kind))

RECURSIVE Concat(_, _)
\* The first `upto` sequences of `seqs`, one after the other.
Concat(seqs, upto) == IF upto = 0 THEN << >> ELSE Concat(seqs, upto - 1) \o seqs[upto]

\* The i-th section header of a file whose sections are of the kinds `kinds`.
ShapeSection(kinds, i) ==
    [ name_offset |-> Address(Bits(KindNameOffset(kinds[i]))),
      type |-> KindType(kinds[i]),
      flags |-> Flags(IF KindType(kinds[i]) = "ProgramData" THEN { 1, 2 } ELSE { }),
      virtual_address |-> Address({ }),
      offset |-> Address(Bits(FileSIZE
                  + Len(Concat([ k \in DOMAIN kinds |-> KindData(kinds[k]) ], i - 1)))),
      segment_size_in_file_image |-> Address(Bits(KindSize(kinds[i]))),
      link |-> SectionIndexName("Undefined"),
      information |-> { },
      alignment |-> None,
      entity_size |-> { } ]

\* The i-th program header of a file: i bytes from the start of the file, loaded at
\* i * 0x1000.
ShapeProgram(i) ==
    [ type |-> "Load",
      segment_flags |-> Flags({ 2 }),
      offset |-> Address({ }),
      virtual_address |-> Address(Bits(4096 * i)),
      physical_address |-> None,
      segment_size_in_file_image |-> Address(Bits(i)),
      segment_size_in_memory |-> Address(Bits(i)),
      alignment |-> Some({ 12 }) ]

\* The entry of a table, followed by padding when the entries are declared larger than
\* the entry is.
Padded(entry, entry_size) ==
    entry \o [ i \in 1 .. (IF entry_size > Len(entry) THEN entry_size - Len(entry) ELSE 0)
                 |-> 0 ]

\* The bytes of the file of a shape.
ObjectFile(shape) ==
    LET endian == IF shape.endianness = "Big" THEN "BigEndian" ELSE "LittleEndian"
        kinds == shape.sections
        data == Concat([ k \in DOMAIN kinds |-> KindData(kinds[k]) ], Len(kinds))
        programs == Concat([ i \in 1 .. shape.programs |->
                               Padded(ProgramWrite(endian, ShapeProgram(i)).bytes,
                                      shape.ph_entry_size) ], shape.programs)
        sections == Concat([ i \in DOMAIN kinds |->
                               Padded(SectionWrite(endian, ShapeSection(kinds, i)).bytes,
                                      shape.sh_entry_size) ], Len(kinds))
        header == [ endianness |-> shape.endianness,
                    version |-> "Current",
                    os_abi |-> "SystemV",
                    type |-> "RelocatableFile",
                    machine |-> "X86_64",
                    entry_point |-> None,
                    ph_offset |-> Address(Bits(FileSIZE + Len(data))),
                    sh_offset |-> Address(Bits(FileSIZE + Len(data) + Len(programs))),
                    processor_flags |-> { },
                    fh_size |-> FileSIZE,
                    ph_entry_size |-> shape.ph_entry_size,
                    ph_number |-> shape.ph_number,
                    sh_entry_size |-> shape.sh_entry_size,
                    sh_number |-> shape.sh_number,
                    section_index_for_section_names |->
                        shape.section_index_for_section_names ] IN
    FileHeaderWrite(endian, header).bytes \o data \o programs \o sections

\* The sequences of at most n section kinds.
KindLists(n) == UNION { [ 1 .. length -> SectionKinds ] : length \in 0 .. n }

\* Files that differ by their tables: how many entries there are and how many the header
\* declares, and how large the header declares an entry.
TableShapes ==
    { [ endianness |-> e, programs |-> p, sections |-> kinds,
        ph_entry_size |-> phs, ph_number |-> p + phx,
        sh_entry_size |-> shs, sh_number |-> Len(kinds) + shx,
        section_index_for_section_names |-> SectionIndexName("Undefined") ] :
        e \in { "Little", "Big" }, p \in 0 .. MaxPrograms,
        kinds \in { << >>, << "null" >>, << "null", "shstrtab" >> },
        phs \in { 0, 40, ProgramSIZE, ProgramSIZE + 2 }, phx \in { 0, 1 },
        shs \in { 0, SectionSIZE, SectionSIZE + 2 }, shx \in { 0, 1 } }

\* Files that differ by their sections and by the section the header names as the table
\* of section names.
NamedShapes ==
    { [ endianness |-> e, programs |-> 0, sections |-> << "null" >> \o kinds,
        ph_entry_size |-> ProgramSIZE, ph_number |-> 0,
        sh_entry_size |-> SectionSIZE, sh_number |-> 1 + Len(kinds),
        section_index_for_section_names |-> index ] :
        e \in { "Little", "Big" }, kinds \in KindLists(MaxSections),
        index \in { SectionIndexName("Undefined"), SectionIndexName("Absolute") }
                    \cup { SectionIndexOk(Bits(i)) : i \in 1 .. MaxSections + 1 } }

\* Files with a section of type NoBits, which declares a size and has no bytes in the
\* file, after the other sections.
NoBitsShapes ==
    { [ endianness |-> e, programs |-> 0, sections |-> << "null" >> \o kinds \o << "bss" >>,
        ph_entry_size |-> ProgramSIZE, ph_number |-> 0,
        sh_entry_size |-> SectionSIZE, sh_number |-> 2 + Len(kinds),
        section_index_for_section_names |-> SectionIndexName("Undefined") ] :
        e \in { "Little", "Big" }, kinds \in { << >>, << "text" >> } }

\* Files cut after their header: the header says that the tables are after the sections'
\* bytes, which are not there.
TruncatedFiles ==
    { SubSeq(ObjectFile(shape), 1, FileSIZE) :
        shape \in { t \in TableShapes : /\ t.sections = << "null", "shstrtab" >>
                                       /\ t.ph_number = t.programs
                                       /\ t.sh_number = Len(t.sections) } }

\* The files that are read.
ObjectFiles ==
    { ObjectFile(shape) : shape \in TableShapes \cup NamedShapes \cup NoBitsShapes }
        \cup TruncatedFiles

NoFile == [ absent |-> TRUE ]

NoSection == [ some |-> FALSE, index |-> 0 ]

\* A fetch_section_names that names every section, the section of names too.
FetchSectionNamesOfAll(file) ==
    LET index == Usize(file.section_index_for_section_names.bits) IN
    IF file.section_index_for_section_names.tag # "Ok" THEN file.sections
    ELSE IF \/ file.sections = << >>
            \/ index >= Len(file.sections)
            \/ file.sections[index + 1].type # "StringTable"
         THEN file.sections
    ELSE LET section_names == file.sections[index + 1] IN
         [ j \in DOMAIN file.sections |->
             [ file.sections[j] EXCEPT
                 !.name = StringAtOffset(section_names.data,
                                         Usize(file.sections[j].name_offset.bits)) ] ]

\* File::fetch_section_names: the sections of the file afterwards.
FetchSectionNames(file) ==
    LET index == Usize(file.section_index_for_section_names.bits) IN
    IF file.section_index_for_section_names.tag # "Ok" THEN file.sections
    ELSE IF \/ file.sections = << >>
            \/ index >= Len(file.sections)
            \/ file.sections[index + 1].type # "StringTable"
         THEN file.sections
    ELSE LET section_names == file.sections[index + 1] IN
         [ j \in DOMAIN file.sections |->
             IF j = index + 1 THEN file.sections[j]
             ELSE [ file.sections[j] EXCEPT
                      !.name = StringAtOffset(section_names.data,
                                              Usize(file.sections[j].name_offset.bits)) ] ]

\* The name `.strtab` that File::strings_section looks for.
STRTAB == << 46, 115, 116, 114, 116, 97, 98 >>

\* The pattern of File::strings_section.
IsStringsSection(section) ==
    section.type = "StringTable" /\ section.name.some /\ section.name.bytes = STRTAB

\* File::strings_section: the first section that matches, by its place among the sections
\* (from 0).
StringsSection(file) ==
    IF \E j \in DOMAIN file.sections : IsStringsSection(file.sections[j])
    THEN [ some |-> TRUE,
           index |-> (CHOOSE j \in DOMAIN file.sections :
                        /\ IsStringsSection(file.sections[j])
                        /\ \A k \in 1 .. j - 1 : ~IsStringsSection(file.sections[k])) - 1 ]
    ELSE NoSection

file_frame ==
    UNCHANGED << configuration, available_parallelism, desired_pool_size, pc, result,
                 submitted, workers, sender, channel, jobs, work_channel, output_file >>

\* The state after File::read returned `read`.
AfterFileRead(state, read) ==
    [ state EXCEPT !.phase = IF IsPanic(read) THEN "panicked"
                             ELSE IF read.ok THEN "read" ELSE "error",
                   !.rest = IF read.ok THEN read.rest ELSE << >>,
                   !.file = IF read.ok THEN read.value ELSE NoFile ]

\* File::read(bytes)
file_read ==
    /\ codec.phase = "bytes"
    /\ codec' = AfterFileRead(codec, FileRead(codec.bytes))
    /\ file_frame

\* file.fetch_section_names()
fetch_section_names ==
    /\ codec.phase = "read"
    /\ codec' = [ codec EXCEPT
                    !.phase = "named",
                    !.before = codec.file,
                    !.file = [ codec.file EXCEPT !.sections = FetchSectionNames(codec.file) ] ]
    /\ file_frame

\* file.strings_section()
strings_section ==
    /\ codec.phase \in { "read", "named" }
    /\ codec' = [ codec EXCEPT
                    !.phase = "searched",
                    !.named = (codec.phase = "named"),
                    !.strings = StringsSection(codec.file) ]
    /\ file_frame

InitFile ==
    /\ \E bytes \in ObjectFiles :
         codec = [ phase |-> "bytes", bytes |-> bytes, rest |-> << >>, file |-> NoFile,
                   before |-> NoFile, named |-> FALSE, strings |-> NoSection ]
    /\ NoLinker

NextFile ==
    \/ file_read
    \/ fetch_section_names
    \/ strings_section

SpecFile == InitFile /\ [][NextFile]_vars

\* The byte order the file declares, at offset 5 of its bytes.
DeclaredEndian(bytes) == IF bytes[6] = 2 THEN "BigEndian" ELSE "LittleEndian"

\* The 16-bit number at an offset of the header of the file.
DeclaredNumber(bytes, offset) ==
    read_uN(DeclaredEndian(bytes), 2, SubSeq(bytes, offset + 1, offset + 2)).value

\* The 64-bit offset at an offset of the header of the file.
DeclaredOffset(bytes, offset) ==
    Usize(read_bits(DeclaredEndian(bytes), 8, SubSeq(bytes, offset + 1, offset + 8)).value)

\* The bytes of the i-th entry (from 0) of the table whose offset is at `table` in the
\* header and whose entry size is at `entry_size` in the header.
DeclaredEntry(bytes, table, entry_size, i) ==
    SubSeq(bytes,
           DeclaredOffset(bytes, table) + i * DeclaredNumber(bytes, entry_size) + 1,
           DeclaredOffset(bytes, table) + (i + 1) * DeclaredNumber(bytes, entry_size))

\* C15: when File::read succeeds, the file has as many programs as the header's
\* program-header count and as many sections as its section-header count, the i-th of
\* each is decoded from the entry-size bytes at the table's offset plus i times the entry
\* size, and the remainder is empty.
C15_ReadYieldsDeclaredEntries ==
    codec.phase = "read" =>
        /\ Len(codec.file.programs) = DeclaredNumber(codec.bytes, 56)
        /\ Len(codec.file.sections) = DeclaredNumber(codec.bytes, 60)
        /\ \A i \in DOMAIN codec.file.programs :
             LET entry == ProgramRead(DeclaredEndian(codec.bytes),
                                      DeclaredEntry(codec.bytes, 32, 54, i - 1),
                                      codec.bytes) IN
             entry.ok /\ codec.file.programs[i] = entry.value
        /\ \A i \in DOMAIN codec.file.sections :
             LET entry == SectionRead(DeclaredEndian(codec.bytes),
                                      DeclaredEntry(codec.bytes, 40, 58, i - 1),
                                      codec.bytes) IN
             entry.ok /\ codec.file.sections[i] = entry.value
        /\ codec.rest = << >>

\* What of C15 holds: no more entries than declared, each decoded from its place.
C15_ReadYieldsAtMostDeclaredEntries ==
    codec.phase = "read" =>
        /\ Len(codec.file.programs) <= DeclaredNumber(codec.bytes, 56)
        /\ Len(codec.file.sections) <= DeclaredNumber(codec.bytes, 60)
        /\ \A i \in DOMAIN codec.file.programs :
             LET entry == ProgramRead(DeclaredEndian(codec.bytes),
                                      DeclaredEntry(codec.bytes, 32, 54, i - 1),
                                      codec.bytes) IN
             entry.ok /\ codec.file.programs[i] = entry.value
        /\ \A i \in DOMAIN codec.file.sections :
             LET entry == SectionRead(DeclaredEndian(codec.bytes),
                                      DeclaredEntry(codec.bytes, 40, 58, i - 1),
                                      codec.bytes) IN
             entry.ok /\ codec.file.sections[i] = entry.value
        /\ codec.rest = << >>

\* A file of two program headers and two section headers, all declared, was read.
C15_Witness ==
    /\ codec.phase = "read"
    /\ DeclaredNumber(codec.bytes, 56) = 2
    /\ DeclaredNumber(codec.bytes, 60) = 2
    /\ Len(codec.file.programs) = 2
    /\ Len(codec.file.sections) = 2
    /\ codec.file.programs[2].data.inner = SubSeq(codec.bytes, 1, 2)
    /\ codec.file.sections[2].data.inner = NamesTable

\* The section the header names as the section of names is there and is a string table.
HasSectionNames(file) ==
    /\ file.section_index_for_section_names.tag = "Ok"
    /\ Usize(file.section_index_for_section_names.bits) < Len(file.sections)
    /\ file.sections[Usize(file.section_index_for_section_names.bits) + 1].type
         = "StringTable"

RecordedName(file, j) ==
    StringAtOffset(
        file.sections[Usize(file.section_index_for_section_names.bits) + 1].data,
        Usize(file.sections[j].name_offset.bits))

\* The j-th section is of type StringTable and its recorded name is `.strtab`.
IsRecordedStrtab(file, j) ==
    /\ file.sections[j].type = "StringTable"
    /\ RecordedName(file, j) = SomeString(STRTAB)

\* C17: after fetch_section_names, strings_section returns the first section of type
\* StringTable whose name, as the section-name string table records it at the section's
\* name offset, is `.strtab`, whenever the file has such a section, whichever index it
\* has, and None only when the file has no such section.
C17_StringsSectionFound ==
    (codec.phase = "searched" /\ codec.named /\ HasSectionNames(codec.before)) =>
        IF \E j \in DOMAIN codec.before.sections : IsRecordedStrtab(codec.before, j)
        THEN /\ codec.strings.some
             /\ IsRecordedStrtab(codec.before, codec.strings.index + 1)
             /\ \A k \in 1 .. codec.strings.index : ~IsRecordedStrtab(codec.before, k)
        ELSE ~codec.strings.some

\* What of C17 holds: the same, for the sections other than the section of names.
C17_StringsSectionFoundAmongOthers ==
    (codec.phase = "searched" /\ codec.named /\ HasSectionNames(codec.before)) =>
        LET others == DOMAIN codec.before.sections
                        \ { Usize(codec.before.section_index_for_section_names.bits) + 1 } IN
        IF \E j \in others : IsRecordedStrtab(codec.before, j)
        THEN /\ codec.strings.some
             /\ codec.strings.index + 1 \in others
             /\ IsRecordedStrtab(codec.before, codec.strings.index + 1)
             /\ \A k \in others : k <= codec.strings.index => ~IsRecordedStrtab(codec.before, k)
        ELSE ~codec.strings.some

(***************************************************************************)
(* Symbol::read on the records of a symbol table.                          *)
(***************************************************************************)

\* The symbol of the seven values Symbol::read's tuple returned.
SymbolOf(name_offset, binding, type, section_index, value, size) ==
    [ name |-> NoString, name_offset |-> name_offset, type |-> type, binding |-> binding,
      section_index_where_symbol_is_defined |-> section_index, value |-> value,
      size |-> size ]

\* A Symbol::read whose read of the binding consumes the byte.
SymbolReadConsumingBinding(endian, input) ==
    LET name_offset == AddressU32Read(endian, input) IN
    IF ~name_offset.ok THEN ParseError ELSE
    LET binding == SymbolBindingRead(endian, name_offset.rest) IN
    IF ~binding.ok THEN ParseError ELSE
    LET type == SymbolTypeRead(endian, Tail(binding.rest)) IN
    IF ~type.ok THEN ParseError ELSE
    LET other == tag(<< 0 >>, type.rest) IN
    IF ~other.ok THEN ParseError ELSE
    LET section_index == SectionIndexRead(endian, 2, other.rest) IN
    IF ~section_index.ok THEN ParseError ELSE
    LET value == AddressRead(endian, section_index.rest) IN
    IF ~value.ok THEN ParseError ELSE
    LET size == read_bits(endian, 8, value.rest) IN
    IF ~size.ok THEN ParseError ELSE
    [ ok |-> TRUE,
      value |-> SymbolOf(name_offset.value, binding.value, type.value, section_index.value,
                         value.value, size.value),
      rest |-> size.rest ]

\* <Symbol as Read>::read: the seven parsers of its tuple, each on what the one before
\* returned as the rest of the input.
SymbolRead(endian, input) ==
    LET name_offset == AddressU32Read(endian, input) IN
    IF ~name_offset.ok THEN ParseError ELSE
    LET binding == SymbolBindingRead(endian, name_offset.rest) IN
    IF ~binding.ok THEN ParseError ELSE
    LET type == SymbolTypeRead(endian, binding.rest) IN
    IF ~type.ok THEN ParseError ELSE
    LET other == tag(<< 0 >>, type.rest) IN
    IF ~other.ok THEN ParseError ELSE
    LET section_index == SectionIndexRead(endian, 2, other.rest) IN
    IF ~section_index.ok THEN ParseError ELSE
    LET value == AddressRead(endian, section_index.rest) IN
    IF ~value.ok THEN ParseError ELSE
    LET size == read_bits(endian, 8, value.rest) IN
    IF ~size.ok THEN ParseError ELSE
    [ ok |-> TRUE,
      value |-> SymbolOf(name_offset.value, binding.value, type.value, section_index.value,
                         value.value, size.value),
      rest |-> size.rest ]

\* The nibbles tried as the binding and as the type of a record: the discriminants of
\* both enums and numbers that are none.
SampleNibbles == { 0, 1, 2, 3, 4, 5, 10, 11, 12, 13, 15 }

\* The bytes tried as the reserved byte of a record.
SampleReserved == { 0, 1, 255 }

\* The bytes after the reserved byte of a record: the section index, the value, the size.
SampleTails ==
    { << 2, 0 >> \o << 3, 0, 0, 0, 0, 0, 0, 0 >> \o << 4, 0, 0, 0, 0, 0, 0, 128 >>,
      << 255, 241 >> \o << 0, 0, 0, 0, 0, 0, 0, 0 >> \o << 255, 255, 255, 255, 255, 255, 255, 255 >> }

\* How many bytes of the records are given to Symbol::read: none, a part of a record, a
\* record, a record and a part of the next, two records.
SampleLengths == { 0, 3, 4, 5, 6, 8, 23, 24, 25, 47, 48 }

\* The records of a symbol table.
SymbolRecords ==
    { << 1, 0, 0, 2 >> \o << 16 * binding + type, reserved >> \o tail :
        binding \in SampleNibbles, type \in SampleNibbles, reserved \in SampleReserved,
        tail \in SampleTails }

\* Symbol::read::<N, _>(bytes)
symbol_read ==
    /\ codec.phase = "bytes"
    /\ codec' = [ codec EXCEPT !.phase = "read",
                               !.read = SymbolRead(codec.endian, codec.bytes) ]
    /\ file_frame

InitSymbol ==
    /\ \E record \in SymbolRecords, length \in SampleLengths, endian \in Endians :
         codec = [ phase |-> "bytes", endian |-> endian,
                   bytes |-> SubSeq(record \o record, 1, length), read |-> ParseError ]
    /\ NoLinker

NextSymbol == symbol_read

SpecSymbol == InitSymbol /\ [][NextSymbol]_vars

\* The discriminants SymbolBinding and SymbolType declare.
BindingDiscriminants == { BindingNibble(binding) : binding \in SymbolBinding }

TypeDiscriminants == { TypeNibble(type) : type \in SymbolType }

\* C18: Symbol::read on a record consumes exactly 24 bytes: the name offset (4), the
\* binding from the high nibble and the type from the low nibble of one single byte, the
\* reserved byte, the section index (2), the value (8), the size (8); it fails when the
\* reserved byte is not zero, when either nibble is not a recognised discriminant, or
\* when fewer than 24 bytes remain; the decoded symbol has no resolved name.
C18_SymbolRead ==
    codec.phase = "read" =>
        LET input == codec.bytes
            read == codec.read
            field(first, last) == SubSeq(input, first + 1, last + 1) IN
        /\ read.ok <=> /\ Len(input) >= 24
                       /\ input[6] = 0
                       /\ input[5] \div 16 \in BindingDiscriminants
                       /\ input[5] % 16 \in TypeDiscriminants
        /\ read.ok =>
             /\ read.rest = SubSeq(input, 25, Len(input))
             /\ read.value.name = NoString
             /\ read.value.name_offset
                  = Address(read_bits(codec.endian, 4, field(0, 3)).value)
             /\ read.value.binding
                  = SymbolBindingRead(codec.endian, << 16 * (input[5] \div 16) >>).value
             /\ read.value.type = SymbolTypeRead(codec.endian, << input[5] % 16 >>).value
             /\ read.value.section_index_where_symbol_is_defined
                  = SectionIndexRead(codec.endian, 2, field(6, 7)).value
             /\ read.value.value = Address(read_bits(codec.endian, 8, field(8, 15)).value)
             /\ read.value.size = read_bits(codec.endian, 8, field(16, 23)).value

\* A record of binding Global (1) and type Function (2) in one byte, followed by the
\* first bytes of the next record, was read: the 24 bytes are consumed.
C18_Witness ==
    /\ codec.phase = "read"
    /\ Len(codec.bytes) = 47
    /\ codec.bytes[5] = 18
    /\ codec.read.ok
    /\ codec.read.value.binding = "Global"
    /\ codec.read.value.type = "Function"
    /\ Len(codec.read.rest) = 23
    /\ codec.read.value.size = { 0, 1, 2, 3, 4, 5, 6, 7 } \cup { 56 + b : b \in 0 .. 7 }
                                 \cup { 8 * k + b : k \in 1 .. 6, b \in 0 .. 7 }

(***************************************************************************)
(* FileBuilder: the segments pushed, the bytes built, the bytes read back. *)
(***************************************************************************)

\* The most segments pushed to a builder.
MaxSegments == 2

\* let file_load_va: u64 = 0x1000
file_load_va == 4096

\* The section flags of the sections pushed: flags push_segment maps, and one it does not.
SampleSectionFlags == { Flags({ }), Flags({ 1 }), Flags({ 1, 2 }), Flags({ 0, 1 }),
                        Flags({ 1, 4 }) }

\* The data of the sections pushed.
SampleSegmentData == { << >>, << 15, 5 >> }

\* FileBuilder::push_segment, the match: the program flag of a section flag; a section
\* flag that is none of the three is unimplemented.
ProgramFlagOf(section_flag) ==
    CASE section_flag = "Allocable" -> "Read"
      [] section_flag = "Executable" -> "Execute"
      [] section_flag = "Writable" -> "Write"
      [] OTHER -> "unimplemented"

\* The bit mask of a set of program flags.
ProgramFlagsOf(flags) ==
    Flags(UNION { Bits(f[2]) : f \in { g \in ProgramFlag : g[1] \in flags } })

\* FileBuilder::new
FileBuilderNew(endianness, version, os_abi, machine, processor_flags) ==
    [ endianness |-> endianness, version |-> version, os_abi |-> os_abi,
      machine |-> machine, processor_flags |-> processor_flags, segments |-> << >> ]

\* A program header whose offset in the file is the address the file is loaded at.
SegmentProgramAtLoadAddress(segment) ==
    [ type |-> "Load",
      segment_flags |-> segment.flags,
      offset |-> Address(Bits(file_load_va)),
      virtual_address |-> Address(Bits(file_load_va)),
      physical_address |-> Some(Bits(file_load_va)),
      segment_size_in_file_image |->
          Address(Bits(FileSIZE + ProgramSIZE + Len(segment.data))),
      segment_size_in_memory |-> Address(Bits(FileSIZE + ProgramSIZE + Len(segment.data))),
      alignment |-> Some(Bits(4096)) ]

\* A program header whose sizes are the size of the data of the segment alone.
SegmentProgramOfDataSize(segment) ==
    [ type |-> "Load",
      segment_flags |-> segment.flags,
      offset |-> Address({ }),
      virtual_address |-> Address(Bits(file_load_va)),
      physical_address |-> Some(Bits(file_load_va)),
      segment_size_in_file_image |-> Address(Bits(Len(segment.data))),
      segment_size_in_memory |-> Address(Bits(Len(segment.data))),
      alignment |-> Some(Bits(4096)) ]

\* The program header build_with_endianness makes of a segment.
SegmentProgram(segment) ==
    [ type |-> "Load",
      segment_flags |-> segment.flags,
      offset |-> Address({ }),
      virtual_address |-> Address(Bits(file_load_va)),
      physical_address |-> Some(Bits(file_load_va)),
      segment_size_in_file_image |->
          Address(Bits(FileSIZE + ProgramSIZE + Len(segment.data))),
      segment_size_in_memory |-> Address(Bits(FileSIZE + ProgramSIZE + Len(segment.data))),
      alignment |-> Some(Bits(4096)) ]

\* FileBuilder::build, FileBuilder::build_with_endianness: the file header, one program
\* header for each segment, the data of each segment.
Build(builder) ==
    LET endian == IF builder.endianness = "Big" THEN "BigEndian" ELSE "LittleEndian"
        segments == builder.segments IN
    WriteAll(
        << FileHeaderWrite(endian,
               [ endianness |-> builder.endianness, version |-> builder.version,
                 os_abi |-> builder.os_abi, type |-> "ExecutableFile",
                 machine |-> builder.machine,
                 entry_point |-> Some(Bits(FileSIZE + ProgramSIZE + file_load_va)),
                 ph_offset |-> Address(Bits(FileSIZE)), sh_offset |-> Address({ }),
                 processor_flags |-> builder.processor_flags, fh_size |-> FileSIZE,
                 ph_entry_size |-> ProgramSIZE, ph_number |-> 1,
                 sh_entry_size |-> SectionSIZE, sh_number |-> 0,
                 section_index_for_section_names |-> SectionIndexName("Undefined") ]),
           WriteAll([ i \in DOMAIN segments |->
                        ProgramWrite(endian, SegmentProgram(segments[i])) ], 1),
           Wrote(Concat([ i \in DOMAIN segments |-> segments[i].data ], Len(segments))) >>,
        1)

\* The sections of the object file a task read: program data of the sample flags and
\* data, a symbol table, and a section that occupies no space in the file.
SampleSections ==
    { [ type |-> "ProgramData", flags |-> flags, data |-> data ] :
        flags \in SampleSectionFlags, data \in SampleSegmentData }
    \cup { [ type |-> "SymbolTable", flags |-> Flags({ }), data |-> << 1 >> ],
           [ type |-> "NoBits", flags |-> Flags({ 0, 1 }), data |-> << >> ] }

\* The object files a task read, as far as the builder is given them.
SampleObjects ==
    { [ endianness |-> "Little", version |-> "Current", os_abi |-> "SystemV",
        machine |-> "X86_64", processor_flags |-> { } ],
      [ endianness |-> "Big", version |-> "Current", os_abi |-> "Standalone",
        machine |-> "X86_64", processor_flags |-> { 0, 31 } ],
      [ endianness |-> "Little", version |-> "None", os_abi |-> "Gnu",
        machine |-> "None", processor_flags |-> { 0, 31 } ],
      [ endianness |-> "Big", version |-> "None", os_abi |-> "SystemV",
        machine |-> "Sparc", processor_flags |-> { } ] }

\* FileBuilder::new(endianness, version, os_abi, machine, processor_flags, hint), before
\* the loop over the sections of the object file; `cursor` is the section the loop is at.
InitBuilder ==
    /\ \E object \in SampleObjects, length \in 0 .. MaxSegments :
         \E sections \in [ 1 .. length -> SampleSections ] :
             codec = [ phase |-> "builder",
                       builder |-> FileBuilderNew(object.endianness, object.version,
                                                  object.os_abi, object.machine,
                                                  object.processor_flags),
                       sections |-> sections, cursor |-> 1,
                       bytes |-> << >>, read |-> ParseError ]
    /\ NoLinker

\* FileBuilder::push_segment: the builder afterwards, or no builder when a flag of the
\* section is unimplemented, which panics.
PushSegment(builder, section_flags, data) ==
    LET flags == { ProgramFlagOf(flag) : flag \in FlagsOf(SectionFlag, section_flags) } IN
    IF "unimplemented" \in flags THEN [ panicked |-> TRUE ]
    ELSE [ builder EXCEPT
             !.segments = Append(@, [ flags |-> ProgramFlagsOf(flags), data |-> data ]) ]

\* The state after file.push_segment(..) left the builder as `pushed`.
AfterPush(state, pushed) ==
    IF "panicked" \in DOMAIN pushed THEN [ state EXCEPT !.phase = "panicked" ]
    ELSE [ state EXCEPT !.builder = pushed, !.cursor = @ + 1 ]

\* link, the loop over the sections: a section of type ProgramData is pushed,
\* file.push_segment(section.flags.into(), section.data.clone().into_owned())
push_segment ==
    /\ codec.phase = "builder"
    /\ codec.cursor <= Len(codec.sections)
    /\ codec.sections[codec.cursor].type = "ProgramData"
    /\ codec' = AfterPush(codec, PushSegment(codec.builder,
                                             codec.sections[codec.cursor].flags,
                                             codec.sections[codec.cursor].data))
    /\ file_frame

\* link, the loop over the sections: .filter(|section| section.r#type ==
\* SectionType::ProgramData) passes a section of another type.
skip_section ==
    /\ codec.phase = "builder"
    /\ codec.cursor <= Len(codec.sections)
    /\ codec.sections[codec.cursor].type # "ProgramData"
    /\ codec' = [ codec EXCEPT !.cursor = @ + 1 ]
    /\ file_frame

\* The state after file.build() returned `built`.
AfterBuild(state, built) ==
    [ state EXCEPT !.phase = IF built.ok THEN "built" ELSE "panicked",
                   !.bytes = built.bytes ]

\* file.build()
build ==
    /\ codec.phase = "builder"
    /\ codec.cursor > Len(codec.sections)
    /\ codec' = AfterBuild(codec, Build(codec.builder))
    /\ file_frame

\* The state after File::read(&final_bytes) returned `read`.
AfterReadBack(state, read) ==
    [ state EXCEPT !.phase = IF IsPanic(read) THEN "read_panicked"
                             ELSE IF read.ok THEN "read" ELSE "read_error",
                   !.read = IF IsPanic(read) THEN ParseError ELSE read ]

\* File::read(&final_bytes)
read_back ==
    /\ codec.phase = "built"
    /\ codec' = AfterReadBack(codec, FileRead(codec.bytes))
    /\ file_frame

NextBuilder ==
    \/ push_segment
    \/ skip_section
    \/ build
    \/ read_back

SpecBuilder == InitBuilder /\ [][NextBuilder]_vars

\* The number k of segments pushed to the builder.
PushedSegments == Len(codec.builder.segments)

\* The bytes built hold, from `offset` on, the program header of each of the first k
\* segments, 56 bytes each.
HoldsProgramHeaders(bytes, builder, offset, k) ==
    \A i \in 1 .. k :
        LET header == SubSeq(bytes, offset + ProgramSIZE * (i - 1) + 1,
                             offset + ProgramSIZE * i) IN
        /\ Len(header) = ProgramSIZE
        /\ header = ProgramWrite(DeclaredEndian(bytes),
                                 SegmentProgram(builder.segments[i])).bytes

\* C19: for a FileBuilder with k pushed segments, every k >= 0, the built bytes contain
\* k 56-byte program headers starting at offset 64, the program-header count of the file
\* header is k, and File::read of the built bytes yields exactly k programs.
C19_OneProgramHeaderPerSegment ==
    /\ codec.phase \in { "built", "read", "read_error", "read_panicked" } =>
         /\ HoldsProgramHeaders(codec.bytes, codec.builder, FileSIZE, PushedSegments)
         /\ DeclaredNumber(codec.bytes, 56) = PushedSegments
    /\ codec.phase \in { "read", "read_error", "read_panicked" } =>
         /\ codec.phase = "read"
         /\ Len(codec.read.value.programs) = PushedSegments

\* What of C19 holds: the program headers are there, and the count and the programs read
\* back are right when k = 1.
C19_ProgramHeadersWritten ==
    /\ codec.phase \in { "built", "read", "read_error", "read_panicked" } =>
         /\ HoldsProgramHeaders(codec.bytes, codec.builder, FileSIZE, PushedSegments)
         /\ PushedSegments = 1 => DeclaredNumber(codec.bytes, 56) = 1
    /\ codec.phase \in { "read", "read_error", "read_panicked" } =>
         /\ codec.phase = "read"
         /\ PushedSegments = 1 => Len(codec.read.value.programs) = 1

\* The entry point the file header of the built bytes holds, at offset 24.
BuiltEntryPoint ==
    Usize(read_bits(DeclaredEndian(codec.bytes), 8, SubSeq(codec.bytes, 25, 32)).value)

\* The offset in the built bytes of the data of the first segment, after the file header
\* and the k program headers.
FirstPayloadOffset == FileSIZE + ProgramSIZE * PushedSegments

\* C20: in the built file the entry point is file_load_va + 64 + 56, and for every number
\* k >= 1 of pushed segments it is the mapped address of the first byte of the data of
\* the first segment: entry - file_load_va is the offset 64 + 56 * k at which that data
\* is placed.
C20_EntryPointAtFirstPayload ==
    (codec.phase = "built" /\ PushedSegments >= 1) =>
        /\ BuiltEntryPoint = file_load_va + 64 + 56
        /\ BuiltEntryPoint - file_load_va = FirstPayloadOffset
        /\ SubSeq(codec.bytes, FirstPayloadOffset + 1,
                  FirstPayloadOffset + Len(codec.builder.segments[1].data))
             = codec.builder.segments[1].data

\* What of C20 holds: the entry point is file_load_va + 64 + 56 whatever k is, the data of
\* the first segment is at 64 + 56 * k, and the two agree when k = 1.
C20_EntryPointAfterOneHeader ==
    (codec.phase = "built" /\ PushedSegments >= 1) =>
        /\ BuiltEntryPoint = file_load_va + 64 + 56
        /\ PushedSegments = 1 => BuiltEntryPoint - file_load_va = FirstPayloadOffset
        /\ SubSeq(codec.bytes, FirstPayloadOffset + 1,
                  FirstPayloadOffset + Len(codec.builder.segments[1].data))
             = codec.builder.segments[1].data

RECURSIVE ExpectedSegments(_, _)
\* The segments of the first n sections: one for each section of type ProgramData, in
\* the order of the sections, of the section's data and of the program flags Read, Execute
\* and Write for the section flags Allocable, Executable and Writable.
ExpectedSegments(sections, n) ==
    IF n = 0 THEN << >>
    ELSE LET section == sections[n]
             has(bit) == bit \in section.flags.bits
             flags == (IF has(1) THEN { 2 } ELSE { }) \cup (IF has(2) THEN { 0 } ELSE { })
                        \cup (IF has(0) THEN { 1 } ELSE { }) IN
         IF section.type # "ProgramData" THEN ExpectedSegments(sections, n - 1)
         ELSE Append(ExpectedSegments(sections, n - 1),
                     [ flags |-> Flags(flags), data |-> section.data ])

\* C21: for every input section of type ProgramData, in section order and whatever its
\* flag set, the task appends exactly one segment whose program flags contain Read iff the
\* section is Allocable, Execute iff it is Executable and Write iff it is Writable, and
\* whose data is the section's bytes; sections of another type append nothing.
C21_OneSegmentPerProgramData ==
    /\ codec.phase # "panicked"
    /\ codec.phase = "builder" =>
         codec.builder.segments = ExpectedSegments(codec.sections, codec.cursor - 1)

\* What of C21 holds: the same as long as no section pushed has a flag other than
\* Allocable, Executable and Writable; the push of one that has panics.
C21_OneSegmentPerMappedProgramData ==
    /\ codec.phase = "builder" =>
         codec.builder.segments = ExpectedSegments(codec.sections, codec.cursor - 1)
    /\ codec.phase = "panicked" =>
         /\ codec.sections[codec.cursor].type = "ProgramData"
         /\ ~(codec.sections[codec.cursor].flags.bits \subseteq { 0, 1, 2 })

(***************************************************************************)
(* Data::symbols and SymbolIterator: the symbols of a symbol table.        *)
(***************************************************************************)

\* The most records of a symbol table.
MaxRecords == 2

\* The most items of an iterator that are kept; the items after them are yielded and
\* forgotten.
MaxYielded == 4

\* <Symbol as Write>::write
SymbolWrite(endian, symbol) ==
    WriteAll(<< AddressU32Write(endian, symbol.name_offset),
                Wrote(BindingAndTypeWrite(symbol.binding, symbol.type, endian)),
                Wrote(write_uN(endian, 1, 0)),
                SectionIndexWrite(endian, 2, symbol.section_index_where_symbol_is_defined),
                AddressWrite(endian, symbol.value),
                Wrote(write_bits(endian, 8, symbol.size)) >>, 1)

\* The symbols of the tables: the two of test_symbol_iterator.
SampleSymbols ==
    { SymbolOf(Address({ 0 }), "Global", "Function", SectionIndexOk({ 1 }),
               Address({ 0, 1, 2 }), { 0 }),
      SymbolOf(Address({ 0, 1 }), "Weak", "Section", SectionIndexOk({ 0 }),
               Address({ 0, 2 }), { 1 }) }

\* The records of the tables in a byte order: the records of the symbols, and a record
\* whose reserved byte is not zero.
SampleRecords(endian) ==
    { SymbolWrite(endian, symbol).bytes : symbol \in SampleSymbols }
    \cup { [ SymbolWrite(endian, symbol).bytes EXCEPT ![6] = 1 ] : symbol \in SampleSymbols }

\* The bytes after the last record of a table: none, or a part of a record.
SampleTrailing == { << >>, << 0, 0, 0 >> }

\* The entity sizes of the tables: None (0), the size of a record, and another size.
SampleEntitySizes == { 0, 24, 25 }

\* The strings sections given to Data::symbols: none, or a section whose data holds the
\* string `a` at offset 1 and no terminated string at offset 3.
SampleStrings ==
    { [ some |-> FALSE, data |-> Data(<< >>, "Unspecified") ],
      [ some |-> TRUE, data |-> Data(<< 0, 97, 0, 98 >>, "StringTable") ] }

\* No item: what next() returns at the end, None.
NoItem == [ some |-> FALSE, ok |-> FALSE, value |-> NoValue ]

\* Some(Ok(symbol))
OkItem(symbol) == [ some |-> TRUE, ok |-> TRUE, value |-> symbol ]

\* Some(Err(err))
ErrItem == [ some |-> TRUE, ok |-> FALSE, value |-> NoValue ]

\* A next() that does not compare the bytes consumed with the entity size.
NextOfReadUnchecked(iterator, read) ==
    IF ~read.ok THEN [ item |-> ErrItem, input |-> iterator.input ]
    ELSE [ item |-> OkItem([ read.value EXCEPT
                               !.name = IF iterator.strings_section.some
                                        THEN StringAtOffset(iterator.strings_section.data,
                                                            Usize(read.value.name_offset.bits))
                                        ELSE NoString ]),
           input |-> read.rest ]

\* SymbolIterator::next, the match on what Symbol::read returned: the item yielded and the
\* input of the iterator afterwards.
NextOfRead(iterator, read) ==
    IF ~read.ok THEN [ item |-> ErrItem, input |-> iterator.input ]
    ELSE IF /\ iterator.entity_size # 0
            /\ Len(iterator.input) - Len(read.rest) # iterator.entity_size
         THEN [ item |-> ErrItem, input |-> iterator.input ]
    ELSE [ item |-> OkItem([ read.value EXCEPT
                               !.name = IF iterator.strings_section.some
                                        THEN StringAtOffset(iterator.strings_section.data,
                                                            Usize(read.value.name_offset.bits))
                                        ELSE NoString ]),
           input |-> read.rest ]

\* SymbolIterator::next
SymbolIteratorNext(iterator) ==
    IF iterator.input = << >> THEN [ item |-> NoItem, input |-> iterator.input ]
    ELSE NextOfRead(iterator,
                    SymbolRead(IF iterator.endianness = "Big" THEN "BigEndian"
                               ELSE "LittleEndian", iterator.input))

\* No iterator: Data::symbols returned None, or was not called yet.
NoIterator ==
    [ input |-> << >>, endianness |-> "Little", entity_size |-> 0,
      strings_section |-> [ some |-> FALSE, data |-> Data(<< >>, "Unspecified") ] ]

\* data.symbols(strings_section)
symbols ==
    /\ codec.phase = "data"
    /\ IF codec.data.type # "SymbolTable"
       THEN codec' = [ codec EXCEPT !.phase = "none" ]
       ELSE codec' = [ codec EXCEPT
                         !.phase = "iterating",
                         !.iterator = [ input |-> codec.data.inner,
                                        endianness |-> codec.data.endianness,
                                        entity_size |-> codec.data.entity_size,
                                        strings_section |-> codec.strings_section ] ]
    /\ file_frame

\* The state after iterator.next() returned.
AfterNext(state, next) ==
    [ state EXCEPT
        !.phase = IF next.item.some THEN "iterating" ELSE "exhausted",
        !.iterator.input = next.input,
        !.yielded = IF next.item.some /\ Len(@) < MaxYielded THEN Append(@, next.item)
                    ELSE @ ]

\* iterator.next()
symbol_next ==
    /\ codec.phase = "iterating"
    /\ codec' = AfterNext(codec, SymbolIteratorNext(codec.iterator))
    /\ file_frame

InitSymbols ==
    /\ \E endianness \in { "Little", "Big" }, length \in 0 .. MaxRecords,
          trailing \in SampleTrailing, entity_size \in SampleEntitySizes,
          strings \in SampleStrings, type \in { "SymbolTable", "StringTable" } :
         \E records \in [ 1 .. length ->
                            SampleRecords(IF endianness = "Big" THEN "BigEndian"
                                          ELSE "LittleEndian") ] :
             codec = [ phase |-> "data",
                       data |-> [ inner |-> Concat(records, length) \o trailing,
                                  type |-> type, endianness |-> endianness,
                                  entity_size |-> entity_size ],
                       strings_section |-> strings,
                       iterator |-> NoIterator,
                       yielded |-> << >> ]
    /\ NoLinker

NextSymbols ==
    \/ symbols
    \/ symbol_next

SpecSymbols == InitSymbols /\ [][NextSymbols]_vars

\* The strategy of the byte order of the data.
DataEndian == IF codec.data.endianness = "Big" THEN "BigEndian" ELSE "LittleEndian"

\* The i-th record (from 1) of the data, 24 bytes.
RecordOf(i) == SubSeq(codec.data.inner, 24 * (i - 1) + 1, 24 * i)

\* The data holds n valid 24-byte records and nothing else, and its entity size is absent
\* or 24.
HoldsValidRecords(n) ==
    /\ Len(codec.data.inner) = 24 * n
    /\ \A i \in 1 .. n : SymbolRead(DataEndian, RecordOf(i)).ok
    /\ codec.data.entity_size \in { 0, 24 }

\* The symbol of the i-th record, with the name the strings section holds for it.
NamedSymbolOf(i) ==
    [ SymbolRead(DataEndian, RecordOf(i)).value EXCEPT
        !.name = IF codec.strings_section.some
                 THEN StringAtOffset(
                          codec.strings_section.data,
                          Usize(read_bits(DataEndian, 4, SubSeq(RecordOf(i), 1, 4)).value))
                 ELSE NoString ]

\* C22: for a Data tagged SymbolTable that holds n valid 24-byte records (entity size
\* absent or 24), symbols() yields exactly n Ok symbols in table order and then None; the
\* name of each is strings_section.data.string_at_offset(name_offset) when a strings
\* section is supplied and None otherwise; when the entity size is set, a record is
\* yielded Ok only if exactly entity-size bytes were consumed for it, otherwise an error
\* is yielded; for another tag symbols() returns None.
C22_SymbolsYielded ==
    /\ codec.phase = "none" <=> (codec.phase # "data" /\ codec.data.type # "SymbolTable")
    /\ \A n \in 0 .. Len(codec.data.inner) \div 24 :
         (codec.phase \in { "iterating", "exhausted" } /\ HoldsValidRecords(n)) =>
             /\ Len(codec.yielded) <= n
             /\ \A i \in DOMAIN codec.yielded : codec.yielded[i] = OkItem(NamedSymbolOf(i))
             /\ codec.iterator.input
                  = SubSeq(codec.data.inner, 24 * Len(codec.yielded) + 1,
                           Len(codec.data.inner))
             /\ codec.phase = "exhausted" => Len(codec.yielded) = n
    /\ \A i \in DOMAIN codec.yielded :
         codec.yielded[i].ok => codec.data.entity_size \in { 0, 24 }
    /\ (codec.data.entity_size \notin { 0, 24 } /\ Len(codec.data.inner) >= 24
        /\ codec.phase = "iterating" /\ codec.yielded # << >>)
         => ~codec.yielded[1].ok

\* A table of two records, of entity size 24 and with a strings section, was iterated to
\* its end: the first symbol has the name `a` and the second has none.
C22_Witness ==
    /\ codec.phase = "exhausted"
    /\ HoldsValidRecords(2)
    /\ codec.data.entity_size = 24
    /\ Len(codec.yielded) = 2
    /\ codec.yielded[1].ok /\ codec.yielded[1].value.name = SomeString(<< 97 >>)
    /\ codec.yielded[2].ok /\ codec.yielded[2].value.name = NoString
    /\ codec.yielded[2].value.binding = "Weak"

\* C27: iterating Data::symbols() to exhaustion terminates for every byte string and
\* every entity size: after finitely many calls next() returns None, also when a record
\* fails to decode, when the entity size differs from the bytes consumed, or when a
\* trailing partial record remains.  The iterator is its remaining input, finitely many
\* bytes, and next() is a function of it: the calls come to an end exactly when every
\* call that yields an item leaves less input than it found.
C27_IterationTerminates ==
    [][(codec.phase = "iterating" /\ codec'.phase = "iterating")
         => Len(codec'.iterator.input) < Len(codec.iterator.input)]_vars

\* What of C27 holds: a call that yields a symbol leaves less input than it found, so the
\* iteration of a table of valid records comes to its end; a call that yields an error
\* leaves the input as it found it.
C27_OkConsumesErrRepeats ==
    [][(codec.phase = "iterating" /\ codec'.phase = "iterating")
         => LET next == SymbolIteratorNext(codec.iterator) IN
            IF next.item.ok
            THEN Len(codec'.iterator.input) < Len(codec.iterator.input)
            ELSE codec'.iterator = codec.iterator]_vars

RECURSIVE PayloadBytes(_, _)
\* The number of bytes of the data of the first n segments.
PayloadBytes(segments, n) ==
    IF n = 0 THEN 0 ELSE PayloadBytes(segments, n - 1) + Len(segments[n].data)

\* The fields of the i-th program header (from 1) of the built bytes, decoded.
BuiltProgramHeader(i) ==
    Named(ProgramFields,
          tuple(ProgramFields, DeclaredEndian(codec.bytes),
                SubSeq(codec.bytes, 64 + 56 * (i - 1) + 1, 64 + 56 * i), 1).value)

\* C23: builder layout for k pushed segments: the built bytes have length
\* 64 + 56 * k + sum of len(data_i); payload i occupies, unchanged and in push order, the
\* offsets from 64 + 56 * k + sum of len(data_j) for j < i; program header i carries type
\* Load, the segment's flags, offset 0, virtual address = physical address = 0x1000,
\* file-image size = memory size = 64 + 56 + len(data_i), and alignment 0x1000.
C23_BuilderLayout ==
    codec.phase = "built" =>
        LET segments == codec.builder.segments
            k == Len(segments) IN
        /\ Len(codec.bytes) = 64 + 56 * k + PayloadBytes(segments, k)
        /\ \A i \in 1 .. k :
             /\ SubSeq(codec.bytes, 64 + 56 * k + PayloadBytes(segments, i - 1) + 1,
                       64 + 56 * k + PayloadBytes(segments, i)) = segments[i].data
             /\ BuiltProgramHeader(i).type = "Load"
             /\ BuiltProgramHeader(i).segment_flags = segments[i].flags
             /\ BuiltProgramHeader(i).offset = Address({ })
             /\ BuiltProgramHeader(i).virtual_address = Address({ 12 })
             /\ BuiltProgramHeader(i).physical_address = Some({ 12 })
             /\ BuiltProgramHeader(i).segment_size_in_file_image
                  = Address(Bits(64 + 56 + Len(segments[i].data)))
             /\ BuiltProgramHeader(i).segment_size_in_memory
                  = Address(Bits(64 + 56 + Len(segments[i].data)))
             /\ BuiltProgramHeader(i).alignment = Some({ 12 })

\* A builder of two segments, the first readable and executable with two bytes of data,
\* the second readable and writable with none, was built.
C23_Witness ==
    /\ codec.phase = "built"
    /\ Len(codec.builder.segments) = 2
    /\ codec.builder.segments[1] = [ flags |-> Flags({ 0, 2 }), data |-> << 15, 5 >> ]
    /\ codec.builder.segments[2] = [ flags |-> Flags({ 1, 2 }), data |-> << >> ]
    /\ Len(codec.bytes) = 178

\* An alignment field holding the number n has been read.
AlignmentFieldRead(n) ==
    /\ codec.phase = "read"
    /\ codec.type = "Alignment"
    /\ Len(codec.bytes) = 8
    /\ NumberRead.ok
    /\ NumberRead.value = n

TaskSteps ==
    << "start", "read", "parse", "names", "symbols", "build", "open_output", "write",
       "send", "end" >>

StepRank(step) == CHOOSE i \in DOMAIN TaskSteps : TaskSteps[i] = step

\* Task j moves as the order of the steps allows: to the next step, or from a step that
\* returned an error to the send of the result.
StepsInOrder(j) ==
    jobs'[j].step # jobs[j].step =>
        \/ StepRank(jobs'[j].step) = StepRank(jobs[j].step) + 1
        \/ jobs'[j].step = "send" /\ jobs[j].failed = "none" /\ jobs'[j].failed # "none"

\* The completion channel gets a result only from a task at its send, which then ends;
\* a task that has sent its result does nothing more.
OneResultAtMost ==
    /\ Len(work_channel'.queue) > Len(work_channel.queue) =>
          \E j \in DOMAIN jobs :
              /\ jobs[j].step = "send" /\ jobs'[j].step = "end"
              /\ work_channel'.queue = Append(work_channel.queue, jobs[j].reported)
    /\ \A j \in DOMAIN jobs : jobs[j].step = "end" => jobs'[j] = jobs[j]

\* Task j, when one of its steps fails, stops there and goes on to send its result.
FailedStepSends(j) ==
    jobs'[j].failed # "none" =>
        /\ jobs'[j].state # "panicked"
        /\ jobs[j].failed = "none" => jobs'[j].step = "send"

\* C24: each per-file task performs its steps in the fixed order open input, read bytes,
\* parse, resolve section names, collect symbols, build, write output; it stops at the
\* first failing step and then sends exactly one result on the completion channel; the
\* driver gets at most one result per task and no step of a task happens after its
\* result was sent.
C24_StepsInOrderThenOneResult ==
    [][ /\ \A j \in DOMAIN jobs : StepsInOrder(j) /\ FailedStepSends(j)
        /\ OneResultAtMost ]_vars

\* The part of C24 that holds: the order of the steps, a result sent at most once and
\* only by the send, nothing after it; a step that returns an error goes to the send.
C24_StepsInOrderOneResultAtMost ==
    [][ /\ \A j \in DOMAIN jobs :
              /\ StepsInOrder(j)
              /\ (jobs'[j].failed # "none" /\ jobs'[j].state # "panicked"
                     /\ jobs[j].failed = "none") => jobs'[j].step = "send"
        /\ OneResultAtMost ]_vars

\* File::read or the decoding of a symbol returned an error to task j.
ParsingFailed(j) == jobs[j].failed \in { "parse", "symbols" } /\ jobs[j].state # "panicked"

\* The error the task makes of a failure of `step`, for the input file of task j.
ParsingError(j) ==
    [ kind |-> IF jobs[j].failed = "parse" THEN "ParsingFile" ELSE "ParsingSymbol",
      path |-> configuration.input_files[j] ]

SectionNamesAreStringTable(file) ==
    LET index == file.section_index_for_section_names IN
    (index.tag = "Ok" /\ Usize(index.bits) < Len(file.sections))
        => file.sections[Usize(index.bits) + 1].type = "StringTable"

\* C26: every File that File::read returns satisfies the invariant: if
\* section_index_for_section_names is Ok(i) with i < sections.len() then sections[i] is
\* of type StringTable; and it still holds after fetch_section_names.
C26_SectionNamesAreStringTable ==
    codec.phase \in { "read", "named", "searched" }
        => SectionNamesAreStringTable(codec.file)

\* The part of C26 that holds: fetch_section_names changes neither the index nor the type
\* of a section, so that it keeps the invariant of a file that satisfies it.
C26_FetchKeepsSectionNamesInvariant ==
    [][(codec.phase = "read" /\ codec'.phase = "named") =>
          /\ codec'.file.section_index_for_section_names
                = codec.file.section_index_for_section_names
          /\ Len(codec'.file.sections) = Len(codec.file.sections)
          /\ \A j \in DOMAIN codec.file.sections :
                codec'.file.sections[j].type = codec.file.sections[j].type
          /\ SectionNamesAreStringTable(codec.file)
                => SectionNamesAreStringTable(codec'.file)]_vars

\* C28: File::read is total: for every byte string it returns a File or a parse error
\* and never aborts; in particular a table offset, or the offset + size of a segment or
\* of a section (a NoBits section, say), beyond the end of the input is a parse error.
C28_FileReadIsTotal ==
    /\ codec.phase # "panicked"
    /\ (codec.phase # "bytes"
           /\ (\/ DeclaredOffset(codec.bytes, 32) > Len(codec.bytes)
               \/ DeclaredOffset(codec.bytes, 40) > Len(codec.bytes)))
          => codec.phase = "error"

\* What holds instead: File::read aborts only on a slice out of the bytes of the file,
\* that of a table whose offset is past the end or that of the data of an entry.
C28_FileReadAbortsOutOfTheFile ==
    codec.phase = "panicked" =>
        \/ /\ DeclaredNumber(codec.bytes, 54) > 0
           /\ DeclaredOffset(codec.bytes, 32) > Len(codec.bytes)
        \/ /\ DeclaredNumber(codec.bytes, 58) > 0
           /\ DeclaredOffset(codec.bytes, 40) > Len(codec.bytes)
        \/ \E i \in 0 .. DeclaredNumber(codec.bytes, 60) - 1 :
             LET entry == DeclaredEntry(codec.bytes, 40, 58, i)
                 offset == Usize(read_bits(DeclaredEndian(codec.bytes), 8,
                                           SubSeq(entry, 25, 32)).value)
                 size == Usize(read_bits(DeclaredEndian(codec.bytes), 8,
                                         SubSeq(entry, 33, 40)).value) IN
             Len(entry) >= 40 /\ offset + size > Len(codec.bytes)

\* The data of a program read back is the bytes the program declares, inside the built
\* bytes.
DataInsideBuiltBytes(program) ==
    LET offset == Usize(program.offset.bits)
        size == Usize(program.segment_size_in_file_image.bits) IN
    /\ offset + size <= Len(codec.bytes)
    /\ program.data.inner = SubSeq(codec.bytes, offset + 1, offset + size)

\* C30: for every builder (either endianness, any version, OS ABI, machine and processor
\* flags, any list of segments, none included) File::read of the built bytes succeeds,
\* so that the unwrap of the re-read never fails, and it returns a file of the builder's
\* endianness, version, OS ABI, machine and processor flags, of type ExecutableFile, with
\* no sections and the section-name index Undefined, whose programs each have their data
\* inside the built bytes.
C30_BuiltBytesReadBack ==
    /\ codec.phase \notin { "read_error", "read_panicked" }
    /\ codec.phase = "read" =>
         LET file == codec.read.value IN
         /\ codec.read.ok
         /\ codec.read.rest = << >>
         /\ file.endianness = codec.builder.endianness
         /\ file.version = codec.builder.version
         /\ file.os_abi = codec.builder.os_abi
         /\ file.machine = codec.builder.machine
         /\ file.processor_flags = codec.builder.processor_flags
         /\ file.type = "ExecutableFile"
         /\ file.sections = << >>
         /\ file.section_index_for_section_names = SectionIndexName("Undefined")
         /\ \A i \in DOMAIN file.programs : DataInsideBuiltBytes(file.programs[i])

C30_Witness ==
    /\ codec.phase = "read"
    /\ codec.read.ok
    /\ PushedSegments = 2
    /\ codec.builder.endianness = "Big"
    /\ codec.builder.version = "None"
    /\ codec.builder.machine = "Sparc"
    /\ Len(codec.read.value.programs) = 1
    /\ Len(codec.read.value.programs[1].data.inner) = FileSIZE + ProgramSIZE + 2

====
